---- MODULE Spec2Model ----
(***************************************************************************)
(* Workflow layer of the scRNA preprocessing pipeline: the statements the  *)
(* Snakefile runs while the rule graph is built (sample resolution,        *)
(* environment resolution, subset switch, rule all and its parameter       *)
(* grid), the scheduling of the resulting tasks, and the file effects of   *)
(* the notebooks the tasks run.                                            *)
(***************************************************************************)
EXTENDS Integers, Sequences, FiniteSets, TLC

VARIABLES
    \* ---- workflow/Snakefile, executed top to bottom ----
    config,        \* the loaded configuration document
    sheet_rows,    \* sample_name column of the sample sheet file, in row order
    directory,     \* identifiers of the entries of the resource directory
    pc,            \* the statement of the Snakefile that runs next
    samples,       \* the name `samples`: bound or not, and its index
    wc,            \* the name `wc`
    executed,      \* the sample resolution branches that ran
    stdout,        \* what was printed
    error,         \* the exception that ended graph construction, or "none"
    env_prefix, env_suffix, filename,
    all_input,     \* the input list of rule all
    \* ---- execution of the rule graph ----
    phase,         \* "idle", "running" (an invocation is under way), "ended"
    status,        \* per task: "none", "satisfied", "pending", "running", "done", "failed"
    mtime,         \* per file: 0 when absent, else the time it was last written
    clock,         \* the time of the last write
    starts,        \* per task: how often the current invocation started it
    at_invoke,     \* mtime as the current invocation found it
    invocations,   \* invocations made so far
    touches,       \* external changes of the source data so far
    content,       \* per file: the version of the source data it holds or was
                   \* derived from, 0 when absent
    \* ---- runs of notebooks/merged_dim_reduc_diff_params.ipynb ----
    now,           \* the day datetime.now() falls on
    tsv,           \* per TSV path: whether the file exists, its header, its rows
    rpc,           \* per run: the statement it executes next
    tsv_file,      \* per run: the parameter tsv_file
    df_date,       \* per run: the 'date' column of its data frame
    written,       \* per run: the paths it created, replaced or appended to
    overlap,       \* pairs of runs that were under way at the same time
    \* ---- runs of the normalization, dimensionality reduction and
    \*      clustering notebooks ----
    h5,            \* per .h5ad path: the artifact stored there
    h5_orig,       \* h5 before any notebook ran
    job_pc,        \* per job: the cell it executes next
    notebook,      \* per job: the notebook it runs
    input_file,    \* per job: the parameter input_file
    count_layer_to_use,  \* per job: the parameter count_layer_to_use
    adata,         \* per job: the object in memory
    random_string, \* per job: the name random_string
    h5_read,       \* per job: the paths it read
    h5_written,    \* per job: the paths it created, replaced or renamed onto
    \* ---- one run of notebooks/merged_dim_reduc_diff_params.ipynb up to PCA ----
    dr_pc,         \* the cell that runs next
    params,        \* the parameters papermill injects
    adata_dr,      \* the object in memory: X, var['highly_variable'], obs, PCA
    \* ---- notebooks/scarches.ipynb: feature augmentation ----
    sa_pc,         \* the cell that runs next
    reference_model_features,   \* gene ids of the reference model, in its order
    adata_to_map,  \* the query dataset
    missing_genes,
    missing_gene_adata,
    adata_to_map_augmented,
    order_checked, \* value of the gene order check
    \* ---- notebooks/scarches.ipynb: loading the reference model ----
    reference_model,       \* the directory ./reference_model
    reference_model_orig,  \* the same when the notebook began
    urlretrieved,          \* calls of urllib.request.urlretrieve
    scarches_model,        \* what SCVI.load_query_data returned
    \* ---- the sample-merge notebook ----
    mg_pc,              \* the cell that runs next
    sample_paths,       \* what glob.glob returned, in its order
    sample_ids,
    sample_treatments,
    sample_weeks,
    samples_dict,       \* the dictionary 'samples'
    adata_obs           \* obs annotations of the concatenated object, per sample label

snakefileVars == <<config, sheet_rows, directory, pc, samples, wc, executed,
                   stdout, error, env_prefix, env_suffix, filename, all_input>>

schedVars == <<phase, status, mtime, clock, starts, at_invoke, invocations, touches,
              content>>

\* what the statements of the Snakefile leave alone, and what the scheduler does
tsvVars == <<now, tsv, rpc, tsv_file, df_date, written, overlap>>

nbVars == <<h5, h5_orig, job_pc, notebook, input_file, count_layer_to_use, adata,
            random_string, h5_read, h5_written>>

drVars == <<dr_pc, params, adata_dr>>

augVars == <<reference_model_features, adata_to_map, missing_genes,
             missing_gene_adata, adata_to_map_augmented, order_checked>>
modelVars == <<reference_model, reference_model_orig, urlretrieved, scarches_model>>
saVars == <<sa_pc, augVars, modelVars>>

mergeVars == <<mg_pc, sample_paths, sample_ids, sample_treatments, sample_weeks,
               samples_dict, adata_obs>>

offSnakefile == <<schedVars, tsvVars, nbVars, drVars, saVars, mergeVars>>
offSched == <<snakefileVars, tsvVars, nbVars, drVars, saVars, mergeVars>>
offTsv == <<snakefileVars, schedVars, nbVars, drVars, saVars, mergeVars>>
offNb == <<snakefileVars, schedVars, tsvVars, drVars, saVars, mergeVars>>
offDr == <<snakefileVars, schedVars, tsvVars, nbVars, saVars, mergeVars>>
offSa == <<snakefileVars, schedVars, tsvVars, nbVars, drVars, mergeVars>>
offMerge == <<snakefileVars, schedVars, tsvVars, nbVars, drVars, saVars>>

----------------------------------------------------------------------------
(* Values of configuration entries and their text form.                    *)

\* Text is a sequence of tokens: a token is one character, or a word that
\* holds neither "_", "/", "." nor a digit and is never written next to
\* another word, so two texts are equal as strings iff they are equal as
\* token sequences.
StrV(s)  == [t |-> "str",  n |-> 0, s |-> s]
IntV(i)  == [t |-> "int",  n |-> i, s |-> <<>>]
BoolV(b) == [t |-> "bool", n |-> IF b THEN 1 ELSE 0, s |-> <<>>]
\* a float64 that holds a whole number, and the float64 nan
FloatV(i) == [t |-> "float", n |-> i, s |-> <<>>]
NaN == [t |-> "nan", n |-> 0, s |-> <<>>]

Digit(d) == <<"0", "1", "2", "3", "4", "5", "6", "7", "8", "9">>[d + 1]

RECURSIVE Decimal(_)
Decimal(i) == IF i < 10 THEN <<Digit(i)>> ELSE Decimal(i \div 10) \o <<Digit(i % 10)>>

\* str.format of a wildcard value, as expand() applies it
Str(v) ==
    CASE v.t = "str"   -> v.s
      [] v.t = "int"   -> Decimal(v.n)
      [] v.t = "bool"  -> IF v.n = 1 THEN <<"True">> ELSE <<"False">>
      [] v.t = "float" -> Decimal(v.n) \o <<".", "0">>
      [] v.t = "nan"   -> <<"nan">>

\* a configuration entry is a scalar or a list
Scalar(v) == [scalar |-> TRUE,  vals |-> <<v>>]
List(vs)  == [scalar |-> FALSE, vals |-> vs]

(* config/config.yaml as shipped.                                          *)

ShippedEnvsPath == "~/work/miniconda/envs/"
ShippedSheetPath == "resources/sample_sheet.tsv"

ShippedDimReduc ==
    [layer_to_use |-> Scalar(StrV(<<"log1p", "_", "norm", "_", "of", "_", "soupX", "_", "counts">>)),
     scale_data_before_pca |-> List(<<BoolV(TRUE), BoolV(FALSE)>>),
     genes_for_pca |-> List(<<StrV(<<"all">>),
                              StrV(<<"globally", "_", "highly", "_", "variable">>),
                              StrV(<<"highly", "_", "variable", "_", "per", "_", "sample">>)>>),
     cc_method |-> List(<<StrV(<<"None">>),
                          StrV(<<"regress", "_", "out">>),
                          StrV(<<"cc", "_", "genes", "_", "out">>),
                          StrV(<<"cc", "_", "difference", "_", "regressed", "_", "out">>)>>),
     pca_n_components |-> Scalar(IntV(50)),
     umap_n_neighbors |-> Scalar(IntV(30))]

\* The key config['samples_in_directory'] the Snakefile tests is not a key
\* of the shipped document, which nests the flag under 'data'.
ShippedConfig ==
    [sample_sheet_path |-> ShippedSheetPath,
     data_samples_in_directory |-> FALSE,
     samples_in_directory |-> "absent",
     use_existing_envs |-> TRUE,
     envs_path |-> ShippedEnvsPath,
     subset_use |-> TRUE,
     dim_reduc |-> ShippedDimReduc]

----------------------------------------------------------------------------
(* The configurations and files the Snakefile is run on.                   *)

MaxRows == 2                      \* rows of the sample sheet
\* the sample_name cells a sheet is written with: 'A', 'B', '07', '7', 'NA'
SampleNames == {<<"A">>, <<"B">>, <<"0", "7">>, <<"7">>, <<"NA">>}
\* names of the entries of the resource directory
EntryNames == {<<"A">>, <<"B">>}

\* sequences over S of length at most n
SeqsUpTo(S, n) == UNION {[1..k -> S] : k \in 0..n}
NoRepeat(s) == \A i, j \in 1..Len(s) : s[i] = s[j] => i = j

\* a sample sheet may repeat a name; file names of one directory are distinct
SheetFiles == SeqsUpTo(SampleNames, MaxRows)
\* the sheet the runs of the rule graph are built from
ShippedSheet == << <<"A">>, <<"B">> >>
Directories == {d \in SeqsUpTo(EntryNames, Cardinality(EntryNames)) : NoRepeat(d)}

\* configurations that differ from the shipped one outside dim_reduc
DataConfigs ==
    {[ShippedConfig EXCEPT !.sample_sheet_path = p,
                           !.data_samples_in_directory = d,
                           !.samples_in_directory = k,
                           !.use_existing_envs = u,
                           !.envs_path = e,
                           !.subset_use = s] :
        p \in {"", ShippedSheetPath}, d \in BOOLEAN, k \in {"absent", "true", "false"},
        u \in BOOLEAN, e \in {ShippedEnvsPath, "/opt/conda/envs/"}, s \in BOOLEAN}

\* declared domains of the six grid parameters
Vx == StrV(<<"x">>)
LayerDomains == {ShippedDimReduc.layer_to_use,
                 List(<<Vx, StrV(<<"x", "_">>)>>)}
ScaleDomains == {ShippedDimReduc.scale_data_before_pca,
                 Scalar(BoolV(TRUE)),
                 List(<<Vx, StrV(<<"_", "x">>)>>)}
GenesDomains == {ShippedDimReduc.genes_for_pca, Scalar(StrV(<<"all">>))}
CcDomains    == {ShippedDimReduc.cc_method,
                 List(<<StrV(<<"None">>), StrV(<<"regress", "_", "out">>)>>)}
PcaDomains   == {ShippedDimReduc.pca_n_components,
                 List(<<IntV(50), IntV(100)>>),
                 List(<<IntV(50), StrV(<<"5", "0">>)>>)}
UmapDomains  == {ShippedDimReduc.umap_n_neighbors, List(<<IntV(30), IntV(50)>>)}

\* configurations that differ from the shipped one in dim_reduc and subset.use
GridConfigs ==
    {[ShippedConfig EXCEPT !.subset_use = s,
                           !.dim_reduc = [layer_to_use |-> l,
                                          scale_data_before_pca |-> sc,
                                          genes_for_pca |-> g,
                                          cc_method |-> c,
                                          pca_n_components |-> p,
                                          umap_n_neighbors |-> u]] :
        s \in BOOLEAN, l \in LayerDomains, sc \in ScaleDomains, g \in GenesDomains,
        c \in CcDomains, p \in PcaDomains, u \in UmapDomains}

Configs == DataConfigs \cup GridConfigs

----------------------------------------------------------------------------
(* workflow/Snakefile, lines 12-18: sample resolution.                     *)

Unbound == [bound |-> FALSE, index |-> <<>>]
Bound(idx) == [bound |-> TRUE, index |-> idx]

\* truth value of config['data']['sample_sheet_path']
SheetConfigured(cfg) == cfg.sample_sheet_path # ""

\* truth value of config['samples_in_directory'], a key that may be missing
ScanKeyPresent(cfg) == cfg.samples_in_directory # "absent"
ScanConfigured(cfg) == cfg.samples_in_directory = "true"

\* cells pd.read_csv reads as missing (some of its default na_values)
NaValues == {<<"NA">>, <<"NaN">>, <<"nan">>, <<"null">>, <<>>}

Digits == {"0", "1", "2", "3", "4", "5", "6", "7", "8", "9"}
IsDigits(cell) == cell # <<>> /\ \A k \in 1..Len(cell) : cell[k] \in Digits
DigitValue(c) == CHOOSE d \in 0..9 : Digit(d) = c

\* int(cell) of a cell of decimal digits
RECURSIVE IntOf(_)
IntOf(cell) ==
    IF cell = <<>> THEN 0
    ELSE 10 * IntOf(SubSeq(cell, 1, Len(cell) - 1)) + DigitValue(cell[Len(cell)])

\* pd.read_csv(..., index_col = 'sample_name', sep = '\t').index: the column
\* is read with the default na_values and the default type inference, one
\* type for the whole column
ReadCsvIndex(rows) ==
    LET isna(k) == rows[k] \in NaValues
        present == {k \in 1..Len(rows) : ~isna(k)}
        numeric == \A k \in present : IsDigits(rows[k])
        anyna == present # 1..Len(rows)
    IN [k \in 1..Len(rows) |->
            IF isna(k) THEN NaN
            ELSE IF numeric
                THEN (IF anyna THEN FloatV(IntOf(rows[k])) ELSE IntV(IntOf(rows[k])))
                ELSE StrV(rows[k])]

\* scripts.samples_auto.read_sample: identifiers derived from the entries of
\* the resource directory
ReadSampleIndex(arg, dir) == [k \in 1..Len(dir) |-> StrV(dir[k])]

LoadSampleSheet ==
    /\ pc = "L12"
    /\ SheetConfigured(config)
    /\ samples' = Bound(ReadCsvIndex(sheet_rows))
    /\ executed' = executed \cup {"sheet"}
    /\ pc' = "L18"
    /\ UNCHANGED offSnakefile
    /\ UNCHANGED <<config, sheet_rows, directory, wc, stdout, error,
                   env_prefix, env_suffix, filename, all_input>>

\* config['samples_in_directory'] raises KeyError when the key is missing
ScanKeyError ==
    /\ pc = "L12"
    /\ ~SheetConfigured(config)
    /\ ~ScanKeyPresent(config)
    /\ error' = "KeyError"
    /\ pc' = "failed"
    /\ UNCHANGED offSnakefile
    /\ UNCHANGED <<config, sheet_rows, directory, samples, wc, executed, stdout,
                   env_prefix, env_suffix, filename, all_input>>

ScanDirectory ==
    /\ pc = "L12"
    /\ ~SheetConfigured(config)
    /\ ScanKeyPresent(config)
    /\ ScanConfigured(config)
    /\ samples' = Bound(ReadSampleIndex(config.data_samples_in_directory, directory))
    /\ executed' = executed \cup {"scan"}
    /\ pc' = "L18"
    /\ UNCHANGED offSnakefile
    /\ UNCHANGED <<config, sheet_rows, directory, wc, stdout, error,
                   env_prefix, env_suffix, filename, all_input>>

\* the else branch prints and falls through to line 18
NoSamplesDetected ==
    /\ pc = "L12"
    /\ ~SheetConfigured(config)
    /\ ScanKeyPresent(config)
    /\ ~ScanConfigured(config)
    /\ stdout' = Append(stdout, "no samples detected")
    /\ pc' = "L18"
    /\ UNCHANGED offSnakefile
    /\ UNCHANGED <<config, sheet_rows, directory, samples, wc, executed, error,
                   env_prefix, env_suffix, filename, all_input>>

\* wc = samples.index; NameError when no branch bound `samples`
StoreWildcards ==
    /\ pc = "L18"
    /\ IF samples.bound
         THEN /\ wc' = samples.index
              /\ pc' = "L22"
              /\ error' = error
         ELSE /\ error' = "NameError"
              /\ pc' = "failed"
              /\ wc' = wc
    /\ UNCHANGED offSnakefile
    /\ UNCHANGED <<config, sheet_rows, directory, samples, executed, stdout,
                   env_prefix, env_suffix, filename, all_input>>

\* rule all of the per-sample workflow:
\* expand('results/preprocessing/{sample}/dimensionality_reduction.h5ad', sample=wc)
SampleTargets(w) ==
    [k \in 1..Len(w) |->
        <<"results", "/", "preprocessing", "/">> \o Str(w[k])
        \o <<"/", "dimensionality", "_", "reduction", ".", "h5ad">>]

\* the configured path whatever the flag says
EnvPrefixConfigured(cfg) == cfg.envs_path

(* lines 21-27: location of conda environments.                            *)
EnvPrefix(cfg) == IF cfg.use_existing_envs THEN cfg.envs_path ELSE "../envs/"
EnvSuffix(cfg) == IF cfg.use_existing_envs THEN "" ELSE ".yaml"

ResolveEnvs ==
    /\ pc = "L22"
    /\ env_prefix' = EnvPrefix(config)
    /\ env_suffix' = EnvSuffix(config)
    /\ pc' = "L31"
    /\ UNCHANGED offSnakefile
    /\ UNCHANGED <<config, sheet_rows, directory, samples, wc, executed, stdout,
                   error, filename, all_input>>

(* lines 30-34: subset or full dataset.                                    *)
Filename(cfg) == IF cfg.subset_use THEN "subset" ELSE "merged"

SetFilename ==
    /\ pc = "L31"
    /\ filename' = Filename(config)
    /\ pc' = "L40"
    /\ UNCHANGED offSnakefile
    /\ UNCHANGED <<config, sheet_rows, directory, samples, wc, executed, stdout,
                   error, env_prefix, env_suffix, all_input>>

----------------------------------------------------------------------------
(* lines 40-51: rule all and the parameter grid.                           *)

\* a scalar string iterated character by character
ExpandValuesChars(entry) ==
    IF entry.scalar /\ entry.vals[1].t = "str"
        THEN [k \in 1..Len(entry.vals[1].s) |-> StrV(<<entry.vals[1].s[k]>>)]
        ELSE entry.vals

\* the values expand() iterates for one keyword: a scalar counts as one value
ExpandValues(entry) == entry.vals

\* the keyword arguments of expand(), in the order the pattern names them
GridDomains(dr) ==
    <<ExpandValues(dr.layer_to_use), ExpandValues(dr.scale_data_before_pca),
      ExpandValues(dr.genes_for_pca), ExpandValues(dr.cc_method),
      ExpandValues(dr.pca_n_components), ExpandValues(dr.umap_n_neighbors)>>

\* itertools.product: every combination, the first list varying slowest
RECURSIVE Product(_)
Product(ls) ==
    IF ls = <<>> THEN << <<>> >>
    ELSE LET h == Head(ls)
             rest == Product(Tail(ls))
             n == Len(rest)
         IN [k \in 1..(Len(h) * n) |->
                <<h[((k - 1) \div n) + 1]>> \o rest[((k - 1) % n) + 1]]

Sep == <<"_", "_">>

\* 'results/analysis/' + filename + '/dim_reduc/checkpoints/{..}__{..}....done'
DonePath(fname, point) ==
    <<"results", "/", "analysis", "/", fname, "/", "dim", "_", "reduc", "/",
      "checkpoints", "/">>
    \o Str(point[1]) \o Sep \o Str(point[2]) \o Sep \o Str(point[3]) \o Sep
    \o Str(point[4]) \o Sep \o Str(point[5]) \o Sep \o Str(point[6])
    \o <<".", "done">>

SubsetPath == <<"results", "/", "preprocessing", "/", "subset", ".", "h5ad">>

GridPoints(cfg) == Product(GridDomains(cfg.dim_reduc))

Expand(fname, cfg) ==
    LET pts == GridPoints(cfg) IN [k \in 1..Len(pts) |-> DonePath(fname, pts[k])]

RuleAllInput(fname, cfg) == <<SubsetPath>> \o Expand(fname, cfg)

RuleAll ==
    /\ pc = "L40"
    /\ all_input' = RuleAllInput(filename, config)
    /\ pc' = "done"
    /\ UNCHANGED offSnakefile
    /\ UNCHANGED <<config, sheet_rows, directory, samples, wc, executed, stdout,
                   error, env_prefix, env_suffix, filename>>

----------------------------------------------------------------------------
SnakefileInit ==
    /\ config \in Configs
    /\ sheet_rows \in SheetFiles
    /\ directory \in Directories
    /\ (config \notin DataConfigs => sheet_rows = ShippedSheet /\ directory = <<>>)
    \* only the source the configuration names is varied
    /\ (SheetConfigured(config) => directory = <<>>)
    /\ (~SheetConfigured(config) => sheet_rows = <<>>)
    /\ pc = "L12"
    /\ samples = Unbound
    /\ wc = <<>>
    /\ executed = {}
    /\ stdout = <<>>
    /\ error = "none"
    /\ env_prefix = ""
    /\ env_suffix = ""
    /\ filename = ""
    /\ all_input = <<>>

SnakefileNext ==
    \/ LoadSampleSheet
    \/ ScanKeyError
    \/ ScanDirectory
    \/ NoSamplesDetected
    \/ StoreWildcards
    \/ ResolveEnvs
    \/ SetFilename
    \/ RuleAll

----------------------------------------------------------------------------
(* The rule graph that rule all requests, and its execution: tasks become  *)
(* eligible once their dependencies' outputs exist, a task whose outputs   *)
(* are present and newer than its inputs is satisfied, a failed task       *)
(* produces nothing and is not retried.                                    *)

MaxGrid == 2            \* grid points whose tasks are run
MaxInvocations == 2     \* invocations of the top-level target
MaxTouches == 1         \* external changes of the source data

\* the state the Snakefile ends in on the shipped configuration
GraphConfig == ShippedConfig
GraphInput == RuleAllInput(Filename(GraphConfig), GraphConfig)

SamplePath == <<"results", "/", "preprocessing", "/", "sample", ".", "h5ad">>
MergedPath == <<"results", "/", "preprocessing", "/", "merged", ".", "h5ad">>

GridIds == 1..MaxGrid
Task(r, k) == [rule |-> r, k |-> k]
MergeTask == Task("merge", 0)
SubsetTask == Task("subset", 0)
GridTask(k) == Task("dim_reduc", k)
Tasks == {MergeTask, SubsetTask} \cup {GridTask(k) : k \in GridIds}

Outputs(t) ==
    CASE t.rule = "merge"     -> {MergedPath}
      [] t.rule = "subset"    -> {SubsetPath}
      [] t.rule = "dim_reduc" -> {GraphInput[t.k + 1]}

Inputs(t) ==
    CASE t.rule = "merge"     -> {SamplePath}
      [] t.rule = "subset"    -> {MergedPath}
      [] t.rule = "dim_reduc" -> {SubsetPath}

\* the targets of rule all that are run
AllInputs == {SubsetPath} \cup {GraphInput[k + 1] : k \in GridIds}

Files == {SamplePath} \cup UNION {Outputs(t) : t \in Tasks}

\* edge induction: B depends on A when an input of B is an output of A
DependsOn(b, a) == Inputs(b) \cap Outputs(a) # {}
Deps(t) == {a \in Tasks : DependsOn(t, a)}

RECURSIVE Ancestors(_)
Ancestors(t) == Deps(t) \cup UNION {Ancestors(a) : a \in Deps(t)}
Descendants(t) == {d \in Tasks : t \in Ancestors(d)}

\* all declared outputs present and newer than the inputs
UpToDate(t, mt) ==
    \A o \in Outputs(t) : mt[o] > 0 /\ \A i \in Inputs(t) : mt[o] > mt[i]

\* every task is run, whatever exists
NeedsRunForced(t, mt) == TRUE

\* a task is also run when its output was derived from other source data
\* than the data at hand
NeedsRunByContent(t, mt) ==
    \/ ~UpToDate(t, mt)
    \/ \E a \in Ancestors(t) : ~UpToDate(a, mt)
    \/ \E o \in Outputs(t) : content[o] # content[SamplePath]

\* a task is run when it is not up to date or a task it depends on is run
NeedsRun(t, mt) ==
    ~UpToDate(t, mt) \/ \E a \in Ancestors(t) : ~UpToDate(a, mt)

Plan(mt) == [t \in Tasks |-> IF NeedsRun(t, mt) THEN "pending" ELSE "satisfied"]

Invoke ==
    /\ phase \in {"idle", "ended"}
    /\ invocations < MaxInvocations
    /\ invocations' = invocations + 1
    /\ phase' = "running"
    /\ status' = Plan(mtime)
    /\ starts' = [t \in Tasks |-> 0]
    /\ at_invoke' = mtime
    /\ UNCHANGED <<mtime, clock, touches, content>>
    /\ UNCHANGED offSched

\* a task stops being eligible for good when one failed before it started
EligibleUntilFailure(t, st, mt) ==
    /\ st[t] = "pending"
    /\ \A i \in Inputs(t) : mt[i] > 0
    /\ \A a \in Deps(t) : st[a] \in {"done", "satisfied"}
    /\ \A u \in Tasks : st[u] # "failed"

\* a task is eligible as soon as its input files exist
EligibleByExistence(t, st, mt) ==
    /\ st[t] = "pending"
    /\ \A i \in Inputs(t) : mt[i] > 0

\* a pending task is eligible once every dependency has completed and its
\* outputs exist
Eligible(t, st, mt) ==
    /\ st[t] = "pending"
    /\ \A i \in Inputs(t) : mt[i] > 0
    /\ \A a \in Deps(t) : st[a] \in {"done", "satisfied"}

Start(t) ==
    /\ phase = "running"
    /\ Eligible(t, status, mtime)
    /\ status' = [status EXCEPT ![t] = "running"]
    /\ starts' = [starts EXCEPT ![t] = @ + 1]
    /\ UNCHANGED <<phase, mtime, clock, at_invoke, invocations, touches, content>>
    /\ UNCHANGED offSched

\* what a task writes is computed from what it reads
Derived(t, ct) == ct[CHOOSE i \in Inputs(t) : TRUE]

\* a successful task writes every declared output
Finish(t) ==
    /\ phase = "running"
    /\ status[t] = "running"
    /\ status' = [status EXCEPT ![t] = "done"]
    /\ clock' = clock + 1
    /\ mtime' = [f \in Files |-> IF f \in Outputs(t) THEN clock + 1 ELSE mtime[f]]
    /\ content' = [f \in Files |-> IF f \in Outputs(t) THEN Derived(t, content)
                                                        ELSE content[f]]
    /\ UNCHANGED <<phase, starts, at_invoke, invocations, touches>>
    /\ UNCHANGED offSched

\* a failed task goes back to the queue
StatusAfterRetry(st, t) == [st EXCEPT ![t] = "pending"]

\* a failed task counts as one that ran
StatusAfterFailureDone(st, t) == [st EXCEPT ![t] = "done"]

\* a failed task stays failed
StatusAfterFailure(st, t) == [st EXCEPT ![t] = "failed"]

\* a failed task produces nothing
Fail(t) ==
    /\ phase = "running"
    /\ status[t] = "running"
    /\ status' = StatusAfterFailure(status, t)
    /\ UNCHANGED <<phase, mtime, clock, starts, at_invoke, invocations, touches,
                   content>>
    /\ UNCHANGED offSched

\* the invocation is over when nothing runs and nothing can be started
EndInvocation ==
    /\ phase = "running"
    /\ \A t \in Tasks : status[t] # "running" /\ ~Eligible(t, status, mtime)
    /\ phase' = "ended"
    /\ UNCHANGED <<status, mtime, clock, starts, at_invoke, invocations, touches,
                   content>>
    /\ UNCHANGED offSched

\* between invocations the source data may be written again
Touch ==
    /\ phase \in {"idle", "ended"}
    /\ touches < MaxTouches
    /\ touches' = touches + 1
    /\ clock' = clock + 1
    /\ mtime' = [mtime EXCEPT ![SamplePath] = clock + 1]
    /\ content' = [content EXCEPT ![SamplePath] = @ + 1]
    /\ UNCHANGED <<phase, status, starts, at_invoke, invocations>>
    /\ UNCHANGED offSched

\* ... or replaced by a file that carries the old timestamp
Rewrite ==
    /\ phase \in {"idle", "ended"}
    /\ touches < MaxTouches
    /\ touches' = touches + 1
    /\ content' = [content EXCEPT ![SamplePath] = @ + 1]
    /\ UNCHANGED <<phase, status, mtime, clock, starts, at_invoke, invocations>>
    /\ UNCHANGED offSched

\* rule all is complete when every one of its inputs has been provided
AllComplete ==
    /\ phase \in {"running", "ended"}
    /\ \A t \in Tasks : status[t] \in {"done", "satisfied"}

SchedIdle ==
    /\ phase = "idle"
    /\ status = [t \in Tasks |-> "none"]
    /\ mtime = [f \in Files |-> IF f = SamplePath THEN 1 ELSE 0]
    /\ clock = 1
    /\ starts = [t \in Tasks |-> 0]
    /\ at_invoke = [f \in Files |-> 0]
    /\ invocations = 0
    /\ touches = 0
    /\ content = [f \in Files |-> IF f = SamplePath THEN 1 ELSE 0]

\* the graph has been built from the shipped configuration and sample sheet
SnakefileDone ==
    /\ config = GraphConfig
    /\ sheet_rows = ShippedSheet
    /\ directory = <<>>
    /\ pc = "done"
    /\ samples = Bound(ReadCsvIndex(ShippedSheet))
    /\ wc = ReadCsvIndex(ShippedSheet)
    /\ executed = {"sheet"}
    /\ stdout = <<>>
    /\ error = "none"
    /\ env_prefix = EnvPrefix(GraphConfig)
    /\ env_suffix = EnvSuffix(GraphConfig)
    /\ filename = Filename(GraphConfig)
    /\ all_input = GraphInput

SchedNext ==
    \/ Invoke
    \/ \E t \in Tasks : Start(t)
    \/ \E t \in Tasks : Finish(t)
    \/ \E t \in Tasks : Fail(t)
    \/ EndInvocation
    \/ Touch
    \/ Rewrite

----------------------------------------------------------------------------
(* notebooks/merged_dim_reduc_diff_params.ipynb: the two cells that save   *)
(* the distances between samples to a TSV file.  Each run of the notebook  *)
(* is the task of one grid point.                                          *)

MaxDay == 1             \* days that pass while the runs are observed

Runs == {1, 2}

\* the value of tsv_file in the parameters cell, and a path the pattern of
\* the second cell matches
DefaultTsv == <<"results", "/", "analysis", "/", "umap", "_", "pca", "_", "distances", ".", "tsv">>
Week1Tsv == <<"results", "/", "analysis", "/", "week1", "_", "samples">>
TsvParams == {DefaultTsv, Week1Tsv}

IsPrefix(p, s) == Len(p) <= Len(s) /\ SubSeq(s, 1, Len(p)) = p

\* re.sub(pat, repl, s): every occurrence of pat, left to right
RECURSIVE ReSub(_, _, _)
ReSub(pat, repl, s) ==
    IF s = <<>> THEN <<>>
    ELSE IF IsPrefix(pat, s)
        THEN repl \o ReSub(pat, repl, SubSeq(s, Len(pat) + 1, Len(s)))
        ELSE <<Head(s)>> \o ReSub(pat, repl, Tail(s))

\* tsv_file2 = re.sub("week1_samples", "week1_and_5_onoff_samples.tsv", tsv_file)
TsvFile2(f) ==
    ReSub(<<"week1", "_", "samples">>,
          <<"week1", "_", "and", "_", "5", "_", "onoff", "_", "samples", ".", "tsv">>, f)

TsvPaths == TsvParams \cup {TsvFile2(f) : f \in TsvParams}

\* a file is its lines; a line is a header line or a data row, and carries
\* the table whose columns it has
NoFile == [exists |-> FALSE, lines |-> <<>>]

\* the columns of table 1: 'Conti_1 vs C_1', 'OnOff_1 vs C_1',
\* 'OnOff_1 vs Conti_1', dim_reduc_method, date and the seven parameters;
\* of table 2: 'OnOff_1 vs OnOff_5', dim_reduc_method, date and the seven
\* parameters
HeaderLine(tb) == [kind |-> "header", table |-> tb, method |-> "none", date |-> 0, point |-> 0]

\* the data frame of table tb of run r: one 'UMAP' and one 'PCA' row with
\* the date and the parameters of the run
Df(r, tb, date) ==
    <<[kind |-> "row", table |-> tb, method |-> "UMAP", date |-> date, point |-> r],
      [kind |-> "row", table |-> tb, method |-> "PCA",  date |-> date, point |-> r]>>

\* pd.read_csv takes the first line as the header and the others as rows
Header(file) == file.lines[1]
Rows(file) == Tail(file.lines)

\* the path the cell of table tb writes
Target(r, tb) == IF tb = 1 THEN tsv_file[r] ELSE TsvFile2(tsv_file[r])

\* df.to_csv(path, sep = "\t", index = False)
ToCsv(file, tb, df) == [exists |-> TRUE, lines |-> <<HeaderLine(tb)>> \o df]

\* df.to_csv(path, sep = "\t", index = False, mode = "a", header = False)
ToCsvAppend(file, tb, df) == [exists |-> TRUE, lines |-> file.lines \o df]

\* the 'date' column of a row as pd.read_csv hands it out: the date the row
\* was written with when the row has the columns of the header; under the
\* header of table 1 the fifth field of a row of table 2 is its
\* layer_to_use, and a row of table 1 has more fields than the header of
\* table 2 names
DateField(row, header) ==
    IF row.kind = "row" /\ row.table = header.table THEN "date" ELSE "no date"

\* datetime.strptime(df_old["date"].max(), '%Y-%m-%d %H:%M:%S.%f') succeeds
Parses(file) ==
    \A k \in 1..Len(Rows(file)) : DateField(Rows(file)[k], Header(file)) = "date"

\* df_old["date"].min()
RECURSIVE MinDate(_)
MinDate(rows) ==
    IF Len(rows) = 1 THEN rows[1].date
    ELSE LET m == MinDate(Tail(rows)) IN IF rows[1].date < m THEN rows[1].date ELSE m

\* (pd.Timestamp.now() - oldest date).days >= 1
Outdated(file, today) == today - MinDate(Rows(file)) >= 1

At(r, step, tb) == rpc[r] = [at |-> step, table |-> tb]
Active(r) == rpc[r].at \notin {"idle", "done", "failed"}

\* the cell of table tb builds its data frame; df["date"] = datetime.now()
Build(r, tb) ==
    /\ At(r, "build", tb)
    /\ rpc' = [rpc EXCEPT ![r].at = "exists"]
    /\ df_date' = [df_date EXCEPT ![r] = now]
    /\ UNCHANGED <<now, tsv, tsv_file, written, overlap>>
    /\ UNCHANGED offTsv

\* papermill starts the notebook
StartRun(r) ==
    /\ rpc[r].at = "idle"
    /\ rpc' = [rpc EXCEPT ![r].at = "build"]
    /\ overlap' = overlap \cup {{r, o} : o \in {o \in Runs : o # r /\ Active(o)}}
    /\ UNCHANGED <<now, tsv, tsv_file, df_date, written>>
    /\ UNCHANGED offTsv

\* if not os.path.exists(path)
Exists(r, tb) ==
    /\ At(r, "exists", tb)
    /\ rpc' = [rpc EXCEPT ![r].at = IF tsv[Target(r, tb)].exists THEN "read" ELSE "create"]
    /\ UNCHANGED <<now, tsv, tsv_file, df_date, written, overlap>>
    /\ UNCHANGED offTsv

\* df_old = pd.read_csv(path); the newest date is printed, which raises
\* ValueError when it is no date; the age of the oldest row decides the mode
Read(r, tb) ==
    /\ At(r, "read", tb)
    /\ rpc' = [rpc EXCEPT ![r].at =
                  IF ~Parses(tsv[Target(r, tb)]) THEN "failed"
                  ELSE IF Outdated(tsv[Target(r, tb)], now) THEN "replace" ELSE "append"]
    /\ UNCHANGED <<now, tsv, tsv_file, df_date, written, overlap>>
    /\ UNCHANGED offTsv

\* where a run goes after the write of table tb
AfterWrite(tb) == IF tb = 1 THEN [at |-> "build", table |-> 2] ELSE [at |-> "done", table |-> 2]

\* df.to_csv(path, ...) of the branches that write a new file
Write(r, tb) ==
    /\ At(r, "create", tb) \/ At(r, "replace", tb)
    /\ tsv' = [tsv EXCEPT ![Target(r, tb)] = ToCsv(@, tb, Df(r, tb, df_date[r]))]
    /\ written' = [written EXCEPT ![r] = @ \cup {Target(r, tb)}]
    /\ rpc' = [rpc EXCEPT ![r] = AfterWrite(tb)]
    /\ UNCHANGED <<now, tsv_file, df_date, overlap>>
    /\ UNCHANGED offTsv

\* df.to_csv(path, ..., mode = "a", header = False)
Append_(r, tb) ==
    /\ At(r, "append", tb)
    /\ tsv' = [tsv EXCEPT ![Target(r, tb)] = ToCsvAppend(@, tb, Df(r, tb, df_date[r]))]
    /\ written' = [written EXCEPT ![r] = @ \cup {Target(r, tb)}]
    /\ rpc' = [rpc EXCEPT ![r] = AfterWrite(tb)]
    /\ UNCHANGED <<now, tsv_file, df_date, overlap>>
    /\ UNCHANGED offTsv

\* a day passes
Tick ==
    /\ now < MaxDay
    /\ now' = now + 1
    /\ UNCHANGED <<tsv, rpc, tsv_file, df_date, written, overlap>>
    /\ UNCHANGED offTsv

TsvIdle ==
    /\ now = 0
    /\ tsv = [f \in TsvPaths |-> NoFile]
    /\ rpc = [r \in Runs |-> [at |-> "idle", table |-> 1]]
    /\ tsv_file = [r \in Runs |-> DefaultTsv]
    /\ df_date = [r \in Runs |-> 0]
    /\ written = [r \in Runs |-> {}]
    /\ overlap = {}

TsvStart ==
    /\ now = 0
    /\ tsv = [f \in TsvPaths |-> NoFile]
    /\ rpc = [r \in Runs |-> [at |-> "idle", table |-> 1]]
    /\ tsv_file \in [Runs -> TsvParams]
    /\ df_date = [r \in Runs |-> 0]
    /\ written = [r \in Runs |-> {}]
    /\ overlap = {}

TsvNext ==
    \/ \E r \in Runs : StartRun(r)
    \/ \E r \in Runs, tb \in {1, 2} : Build(r, tb)
    \/ \E r \in Runs, tb \in {1, 2} : Exists(r, tb)
    \/ \E r \in Runs, tb \in {1, 2} : Read(r, tb)
    \/ \E r \in Runs, tb \in {1, 2} : Write(r, tb)
    \/ \E r \in Runs, tb \in {1, 2} : Append_(r, tb)
    \/ Tick

----------------------------------------------------------------------------
(* The normalization, dimensionality reduction and clustering notebooks:   *)
(* each reads the artifact at input_file, adds to it and saves it.         *)

Jobs == {1, 2}
Notebooks == {"normalization", "dimensionality_reduction", "clustering"}
InputFiles == {"quality_control.h5ad", "adata_compressed.h5ad"}
CountLayers == {"soupX_counts", "counts"}
RandomStrings == {"3f9a", "c07e"}       \* values of np.random.bytes(10).hex()

\* a path: a file name and what is appended to it
Path(f, ext) == [file |-> f, ext |-> ext]
\* input_file + random_string + ".tmp.h5ad"
TmpPath(f, rs) == Path(f, rs)
\* a path next to input_file that no notebook names
OtherPath(f) == Path(f, "other")
H5Paths == {Path(f, "") : f \in InputFiles}
           \cup {TmpPath(f, rs) : f \in InputFiles, rs \in RandomStrings}
           \cup {OtherPath(f) : f \in InputFiles}

\* names of layers: a count layer v, or "<kind>_of_<v>"
Layer(kind, v) == [kind |-> kind, of |-> v]
CountLayer(v) == Layer("counts", v)

Artifact(layers, x, keys) == [state |-> "complete", layers |-> layers, X |-> x, keys |-> keys]
Absent == [state |-> "absent", layers |-> {}, X |-> CountLayer("none"), keys |-> {}]
\* a file that is being written
Partial == [state |-> "partial", layers |-> {}, X |-> CountLayer("none"), keys |-> {}]

\* the artifact quality control leaves: both count layers, nothing derived
QcArtifact == Artifact({CountLayer(v) : v \in CountLayers}, CountLayer("counts"), {})

\* a second cell that names the layers of one count layer, whatever v is
LayerReadOfSoupX(nb, v) ==
    CASE nb = "normalization"            -> CountLayer("soupX_counts")
      [] nb = "dimensionality_reduction" -> Layer("log1p_norm", "soupX_counts")
      [] nb = "clustering"               -> Layer("scran_normalization", "soupX_counts")

\* the layer the second code cell of a notebook copies into adata.X
LayerRead(nb, v) ==
    CASE nb = "normalization"            -> CountLayer(v)
      [] nb = "dimensionality_reduction" -> Layer("log1p_norm", v)
      [] nb = "clustering"               -> Layer("scran_normalization", v)

\* what the cells of a notebook add to the object
LayersAdded(nb, v) ==
    IF nb = "normalization"
        THEN {Layer("log1p_norm", v), Layer("scran_normalization", v),
              Layer("analytic_pearson_residuals", v)}
        ELSE {}

KeysAdded(nb) ==
    CASE nb = "normalization"            -> {"size_factors"}
      [] nb = "dimensionality_reduction" -> {"X_pca", "X_tsne", "X_umap"}
      [] nb = "clustering"               -> {"X_umap", "leiden", "leiden_res0_25",
                                             "leiden_res0_5", "leiden_res1"}

JobAt(j, cell) == job_pc[j] = cell
JobGoto(j, cell) == job_pc' = [job_pc EXCEPT ![j] = cell]

\* adata = sc.read_h5ad(input_file); fails on a missing or half-written file
ReadH5ad(j) ==
    /\ JobAt(j, "read")
    /\ LET file == h5[Path(input_file[j], "")] IN
         IF file.state = "complete"
            THEN /\ adata' = [adata EXCEPT ![j] = file]
                 /\ JobGoto(j, "set_X")
            ELSE /\ adata' = adata
                 /\ JobGoto(j, "failed")
    /\ h5_read' = [h5_read EXCEPT ![j] = @ \cup {Path(input_file[j], "")}]
    /\ UNCHANGED <<h5, h5_orig, notebook, input_file, count_layer_to_use,
                   random_string, h5_written>>
    /\ UNCHANGED offNb

\* adata.X = adata.layers[...]; KeyError when the layer is not there
SetX(j) ==
    /\ JobAt(j, "set_X")
    /\ LET l == LayerRead(notebook[j], count_layer_to_use[j]) IN
         IF l \in adata[j].layers
            THEN /\ adata' = [adata EXCEPT ![j].X = l]
                 /\ JobGoto(j, "compute")
            ELSE /\ adata' = adata
                 /\ JobGoto(j, "failed")
    /\ UNCHANGED <<h5, h5_orig, notebook, input_file, count_layer_to_use,
                   random_string, h5_read, h5_written>>
    /\ UNCHANGED offNb

\* the cells between the load and the save
Compute(j) ==
    /\ JobAt(j, "compute")
    /\ adata' = [adata EXCEPT
                   ![j].layers = @ \cup LayersAdded(notebook[j], count_layer_to_use[j]),
                   ![j].keys = @ \cup KeysAdded(notebook[j])]
    /\ JobGoto(j, "save")
    /\ UNCHANGED <<h5, h5_orig, notebook, input_file, count_layer_to_use,
                   random_string, h5_read, h5_written>>
    /\ UNCHANGED offNb

\* a save cell that writes to a path of its own
SavePathSeparate(nb, f, rs) == OtherPath(f)

\* the path the save cell hands to adata.write_h5ad
SavePath(nb, f, rs) == IF nb = "normalization" THEN TmpPath(f, rs) ELSE Path(f, "")

\* random_string = np.random.bytes(10).hex()   (normalization only)
DrawRandomString(j) ==
    /\ JobAt(j, "save")
    /\ notebook[j] = "normalization"
    /\ \E rs \in RandomStrings : random_string' = [random_string EXCEPT ![j] = rs]
    /\ JobGoto(j, "write")
    /\ UNCHANGED <<h5, h5_orig, notebook, input_file, count_layer_to_use, adata,
                   h5_read, h5_written>>
    /\ UNCHANGED offNb

\* adata.write_h5ad(path) opens the file for writing ...
BeginWrite(j) ==
    /\ \/ JobAt(j, "write")
       \/ JobAt(j, "save") /\ notebook[j] # "normalization"
    /\ LET path == SavePath(notebook[j], input_file[j], random_string[j]) IN
         /\ h5' = [h5 EXCEPT ![path] = Partial]
         /\ h5_written' = [h5_written EXCEPT ![j] = @ \cup {path}]
    /\ JobGoto(j, "writing")
    /\ UNCHANGED <<h5_orig, notebook, input_file, count_layer_to_use, adata,
                   random_string, h5_read>>
    /\ UNCHANGED offNb

\* ... and has written the whole object when it returns
EndWrite(j) ==
    /\ JobAt(j, "writing")
    /\ LET path == SavePath(notebook[j], input_file[j], random_string[j]) IN
         h5' = [h5 EXCEPT ![path] = adata[j]]
    /\ JobGoto(j, IF notebook[j] = "normalization" THEN "rename" ELSE "done")
    /\ UNCHANGED <<h5_orig, notebook, input_file, count_layer_to_use, adata,
                   random_string, h5_read, h5_written>>
    /\ UNCHANGED offNb

\* os.rename(input_file + random_string + ".tmp.h5ad", input_file);
\* FileNotFoundError when the temporary file is gone
Rename(j) ==
    /\ JobAt(j, "rename")
    /\ LET tmp == TmpPath(input_file[j], random_string[j])
           dst == Path(input_file[j], "")
       IN IF h5[tmp].state = "absent"
            THEN /\ JobGoto(j, "failed")
                 /\ UNCHANGED <<h5, h5_written>>
            ELSE /\ h5' = [h5 EXCEPT ![dst] = h5[tmp], ![tmp] = Absent]
                 /\ h5_written' = [h5_written EXCEPT ![j] = @ \cup {dst}]
                 /\ JobGoto(j, "done")
    /\ UNCHANGED <<h5_orig, notebook, input_file, count_layer_to_use, adata,
                   random_string, h5_read>>
    /\ UNCHANGED offNb

InitialH5 == [p \in H5Paths |-> IF p.ext = "" THEN QcArtifact ELSE Absent]

NbIdle ==
    /\ h5 = InitialH5
    /\ h5_orig = InitialH5
    /\ job_pc = [j \in Jobs |-> "done"]
    /\ notebook = [j \in Jobs |-> "normalization"]
    /\ input_file = [j \in Jobs |-> "quality_control.h5ad"]
    /\ count_layer_to_use = [j \in Jobs |-> "soupX_counts"]
    /\ adata = [j \in Jobs |-> Absent]
    /\ random_string = [j \in Jobs |-> "3f9a"]
    /\ h5_read = [j \in Jobs |-> {}]
    /\ h5_written = [j \in Jobs |-> {}]

NbStart ==
    /\ h5 = InitialH5
    /\ h5_orig = InitialH5
    /\ job_pc = [j \in Jobs |-> "read"]
    /\ notebook \in [Jobs -> Notebooks]
    /\ input_file \in [Jobs -> InputFiles]
    /\ count_layer_to_use \in [Jobs -> CountLayers]
    /\ adata = [j \in Jobs |-> Absent]
    /\ random_string = [j \in Jobs |-> "3f9a"]
    /\ h5_read = [j \in Jobs |-> {}]
    /\ h5_written = [j \in Jobs |-> {}]

NbNext ==
    \/ \E j \in Jobs : ReadH5ad(j)
    \/ \E j \in Jobs : SetX(j)
    \/ \E j \in Jobs : Compute(j)
    \/ \E j \in Jobs : DrawRandomString(j)
    \/ \E j \in Jobs : BeginWrite(j)
    \/ \E j \in Jobs : EndWrite(j)
    \/ \E j \in Jobs : Rename(j)

----------------------------------------------------------------------------
(* notebooks/merged_dim_reduc_diff_params.ipynb: the cells from the load   *)
(* of the dataset to the PCA call.  A matrix is described by the layer it  *)
(* was copied from and what was done to it since, a gene set by the        *)
(* computation that marked it.                                             *)

Layers == {"log1p_norm_of_soupX_counts", "scran_normalization_of_soupX_counts"}
GenesForPca == {"all", "globally_highly_variable", "highly_variable_per_sample"}
CcMethods == {"None", "regress_out", "cc_genes_out", "cc_difference_regressed_out"}

\* the parameters cell, with the values the grid hands in
Params ==
    [layer_to_use : Layers, scale_data_before_pca : BOOLEAN,
     genes_for_pca : GenesForPca, cc_method : CcMethods,
     pca_n_components : {50, 100}, umap_n_neighbors : {30, 100}]

\* n_neighbors of sc.pp.neighbors when the call does not pass it
DefaultNNeighbors == 15

\* adata.layers[l].copy()
LayerCopy(l) == [layer |-> l, scaled |-> FALSE, regressed |-> {}]
NoMatrix == [layer |-> "none", scaled |-> FALSE, regressed |-> {}]
NoPca == [ran |-> FALSE, X |-> NoMatrix, genes |-> "none"]

\* the object sc.read_h5ad returns, as far as the cells below use it
NoNeighbors == [ran |-> FALSE, n_neighbors |-> 0, n_pcs |-> 0]

Loaded == [X |-> NoMatrix, highly_variable |-> "unset", hvg_calls |-> {},
           obs |-> {"sample"}, top_hvgs2 |-> FALSE, pca |-> NoPca,
           n_comps |-> 0, neighbors |-> NoNeighbors, umap |-> FALSE,
           error |-> "none"]

\* adata.X = adata.layers[layer_to_use].copy()
SetXCell(ad, p) == [ad EXCEPT !.X = LayerCopy(p.layer_to_use)]

\* sc.pp.scale(adata); sc.tl.score_genes_cell_cycle(...); cell_cycle_diff;
\* if not scale_data_before_pca: adata.X = adata.layers[layer_to_use].copy()
ScaleCell(ad, p) ==
    [ad EXCEPT !.X = IF ~p.scale_data_before_pca THEN LayerCopy(p.layer_to_use)
                                                 ELSE [ad.X EXCEPT !.scaled = TRUE],
               !.obs = @ \cup {"S_score", "G2M_score", "phase", "cell_cycle_diff"}]

\* adata.X = adata.layers[layer_to_use].copy(), before the data go to R
ResetXCell(ad, p) == [ad EXCEPT !.X = LayerCopy(p.layer_to_use)]

\* the %%R cell: top_hvgs2, the top variable genes without those whose
\* variance the phase explains
RCell(ad, p) == [ad EXCEPT !.top_hvgs2 = TRUE]

\* Python's truth value of the string literal "globally_highly_variable"
Truthy(str) == str # ""

\* if "globally_highly_variable":
GlobalBranch(p) == Truthy("globally_highly_variable")

\* if ...: sc.pp.highly_variable_genes(adata)
\* elif genes_for_pca == "highly_variable_per_sample":
\*     sc.pp.highly_variable_genes(adata, batch_key = "sample")
GenesCell(ad, p) ==
    IF GlobalBranch(p)
        THEN [ad EXCEPT !.highly_variable = "all_cells",
                        !.hvg_calls = @ \cup {"all_cells"}]
    ELSE IF p.genes_for_pca = "highly_variable_per_sample"
        THEN [ad EXCEPT !.highly_variable = "per_sample",
                        !.hvg_calls = @ \cup {"per_sample"}]
    ELSE ad

\* sc.pp.regress_out(adata, keys)
RegressOut(x, keys) == [x EXCEPT !.regressed = @ \cup keys]

\* the cc_method branches
CcCell(ad, p) ==
    CASE p.cc_method = "cc_genes_out" -> [ad EXCEPT !.highly_variable = "top_hvgs2"]
      [] p.cc_method = "regress_out" ->
            [ad EXCEPT !.X = RegressOut(@, {"S_score", "G2M_score"})]
      [] p.cc_method = "cc_difference_regressed_out" ->
            [ad EXCEPT !.X = RegressOut(@, {"cell_cycle_diff"})]
      [] OTHER -> ad

\* sc.tl.pca(adata, n_comps = pca_n_components,
\*           use_highly_variable = False if genes_for_pca == "all" else True)
Pca(ad, p) ==
    [ad EXCEPT !.pca = [ran |-> TRUE, X |-> ad.X,
                        genes |-> IF p.genes_for_pca = "all" THEN "all"
                                                             ELSE ad.highly_variable],
               !.n_comps = p.pca_n_components]

\* the keyword arguments of sc.pp.neighbors(adata, n_pcs = umap_n_neighbors)
NeighborsArgs(p) ==
    [n_neighbors |-> DefaultNNeighbors, n_pcs |-> p.umap_n_neighbors]

\* sc.pp.neighbors on X_pca; ValueError when n_pcs asks for more components
\* than X_pca has
Neighbors(ad, p) ==
    LET a == NeighborsArgs(p) IN
      IF a.n_pcs > ad.n_comps
        THEN [ad EXCEPT !.error = "ValueError"]
        ELSE [ad EXCEPT !.neighbors = [ran |-> TRUE, n_neighbors |-> a.n_neighbors,
                                       n_pcs |-> a.n_pcs]]

\* sc.tl.umap(adata, n_components = 2, min_dist = 0.1, spread = 5): computed
\* from the neighborhood graph
Umap(ad, p) == IF ad.error # "none" THEN ad ELSE [ad EXCEPT !.umap = TRUE]

\* the cell of the three calls
PcaCell(ad, p) == Umap(Neighbors(Pca(ad, p), p), p)

\* the cells in the order the notebook runs them
DrCells == <<"set_X", "scale", "reset_X", "r", "genes", "cc", "pca">>

RunCell(cell, ad, p) ==
    CASE cell = "set_X"   -> SetXCell(ad, p)
      [] cell = "scale"   -> ScaleCell(ad, p)
      [] cell = "reset_X" -> ResetXCell(ad, p)
      [] cell = "r"       -> RCell(ad, p)
      [] cell = "genes"   -> GenesCell(ad, p)
      [] cell = "cc"      -> CcCell(ad, p)
      [] cell = "pca"     -> PcaCell(ad, p)

\* the object after the first n cells
RECURSIVE RunCells(_, _)
RunCells(n, p) == IF n = 0 THEN Loaded ELSE RunCell(DrCells[n], RunCells(n - 1, p), p)

\* what PCA is run on for a grid point
PcaInput(p) == RunCells(Len(DrCells), p).pca

DrStep(cell, next) ==
    /\ dr_pc = cell
    /\ adata_dr' = RunCell(cell, adata_dr, params)
    /\ dr_pc' = IF adata_dr'.error # "none" THEN "failed" ELSE next
    /\ UNCHANGED params
    /\ UNCHANGED offDr

\* the cell after cell number k
CellAfter(k) == IF k < Len(DrCells) THEN DrCells[k + 1] ELSE "done"

DrIdle ==
    /\ dr_pc = "idle"
    /\ params = [layer_to_use |-> "log1p_norm_of_soupX_counts",
                 scale_data_before_pca |-> TRUE,
                 genes_for_pca |-> "highly_variable_per_sample",
                 cc_method |-> "None",
                 pca_n_components |-> 100,
                 umap_n_neighbors |-> 100]
    /\ adata_dr = Loaded

DrStart ==
    /\ dr_pc = "set_X"
    /\ params \in Params
    /\ adata_dr = Loaded

DrNext == \E k \in 1..Len(DrCells) : DrStep(DrCells[k], CellAfter(k))

----------------------------------------------------------------------------
(* notebooks/scarches.ipynb: the query dataset is given the features of    *)
(* the reference model.  A dataset is its gene ids (var), its cells (obs)  *)
(* and one column of values per gene.                                      *)

MaxGenes == 2           \* gene ids in the reference and in the query
MaxCells == 2           \* cells of the query

GeneIds == {"ENSG1", "ENSG2", "ENSG3", "ENSG4"}
GeneLists == {g \in SeqsUpTo(GeneIds, MaxGenes) : NoRepeat(g)}

GeneNo(g) == CASE g = "ENSG1" -> 1 [] g = "ENSG2" -> 2 [] g = "ENSG3" -> 3 [] g = "ENSG4" -> 4

\* the raw count of a gene in a cell of the query: positive, and different
\* from gene to gene and from cell to cell
Count(c, g) == 10 * GeneNo(g) + c

AnnData(var, obs, X) == [var |-> var, obs |-> obs, X |-> X]
EmptyAnnData == AnnData(<<>>, {}, <<>>)

\* the query after 'counts' became X and gene_ids became the index
Query(var, n) ==
    AnnData(var, 1..n, [k \in 1..Len(var) |-> [c \in 1..n |-> Count(c, var[k])]])

Has(seq, x) == \E k \in 1..Len(seq) : seq[k] = x
Pos(seq, x) == CHOOSE k \in 1..Len(seq) : seq[k] = x

\* [gene_id for gene_id in reference_model_features.index
\*  if gene_id not in adata_to_map.var.index]
RECURSIVE MissingGenes(_, _)
MissingGenes(ref, var) ==
    IF ref = <<>> THEN <<>>
    ELSE (IF Has(var, Head(ref)) THEN <<>> ELSE <<Head(ref)>>) \o MissingGenes(Tail(ref), var)

\* sc.AnnData(X = csr_matrix(np.zeros((adata.n_obs, len(missing_genes)))),
\*            obs = adata.obs.iloc[:, :1], var = reference_model_features.loc[missing_genes, :])
ZeroAnnData(genes, obs) ==
    AnnData(genes, obs, [k \in 1..Len(genes) |-> [c \in obs |-> 0]])

\* sc.concat([a, b], axis = 1, join = "outer"): the variables of a, then
\* those of b; every cell of either; a cell an object lacks is filled in
Concat(a, b) ==
    LET obs == a.obs \cup b.obs
        fill(col) == [c \in obs |-> IF c \in DOMAIN col THEN col[c] ELSE 0]
    IN AnnData(a.var \o b.var, obs,
               [k \in 1..(Len(a.var) + Len(b.var)) |->
                   IF k <= Len(a.var) THEN fill(a.X[k]) ELSE fill(b.X[k - Len(a.var)])])

\* a subset that keeps the order the object has
SubsetInPlaceOrder(a, idx) ==
    LET keep == SelectSeq([k \in 1..Len(a.var) |-> k], LAMBDA k : Has(idx, a.var[k]))
    IN AnnData([k \in 1..Len(keep) |-> a.var[keep[k]]], a.obs,
               [k \in 1..Len(keep) |-> a.X[keep[k]]])

\* a[:, idx].copy(): the variables idx names, in the order of idx
Subset(a, idx) ==
    AnnData(idx, a.obs, [k \in 1..Len(idx) |-> a.X[Pos(a.var, idx[k])]])

\* missing_genes = [...]
MissingCell ==
    /\ sa_pc = "missing"
    /\ missing_genes' = MissingGenes(reference_model_features, adata_to_map.var)
    /\ sa_pc' = "zeros"
    /\ UNCHANGED <<reference_model_features, adata_to_map, missing_gene_adata,
                   adata_to_map_augmented, order_checked>>
    /\ UNCHANGED modelVars
    /\ UNCHANGED offSa

\* missing_gene_adata = sc.AnnData(...)
ZerosCell ==
    /\ sa_pc = "zeros"
    /\ missing_gene_adata' = ZeroAnnData(missing_genes, adata_to_map.obs)
    /\ sa_pc' = "concat"
    /\ UNCHANGED <<reference_model_features, adata_to_map, missing_genes,
                   adata_to_map_augmented, order_checked>>
    /\ UNCHANGED modelVars
    /\ UNCHANGED offSa

\* adata_to_map_augmented = sc.concat([adata_to_map, missing_gene_adata], ...)
ConcatCell ==
    /\ sa_pc = "concat"
    /\ adata_to_map_augmented' = Concat(adata_to_map, missing_gene_adata)
    /\ sa_pc' = "subset"
    /\ UNCHANGED <<reference_model_features, adata_to_map, missing_genes,
                   missing_gene_adata, order_checked>>
    /\ UNCHANGED modelVars
    /\ UNCHANGED offSa

\* adata_to_map_augmented = adata_to_map_augmented[:, reference_model_features.index].copy();
\* KeyError when the index names a variable the object lacks
SubsetCell ==
    /\ sa_pc = "subset"
    /\ IF \A k \in 1..Len(reference_model_features) :
              Has(adata_to_map_augmented.var, reference_model_features[k])
         THEN /\ adata_to_map_augmented' =
                    Subset(adata_to_map_augmented, reference_model_features)
              /\ sa_pc' = "check"
         ELSE /\ adata_to_map_augmented' = adata_to_map_augmented
              /\ sa_pc' = "failed"
    /\ UNCHANGED <<reference_model_features, adata_to_map, missing_genes,
                   missing_gene_adata, order_checked>>
    /\ UNCHANGED modelVars
    /\ UNCHANGED offSa

\* (adata_to_map_augmented.var.index == reference_model_features.index).all()
CheckCell ==
    /\ sa_pc = "check"
    /\ order_checked' = IF adata_to_map_augmented.var = reference_model_features
                            THEN "True" ELSE "False"
    /\ sa_pc' = "model"
    /\ UNCHANGED <<reference_model_features, adata_to_map, missing_genes,
                   missing_gene_adata, adata_to_map_augmented>>
    /\ UNCHANGED modelVars
    /\ UNCHANGED offSa

\* the files of the directory that the notebook names
ModelFiles == {"model.pt"}
Directory(files) == [exists |-> TRUE, files |-> files]
NoDirectory == [exists |-> FALSE, files |-> {}]
\* Path("./reference_model/model.pt").exists()
HasModelPt(dir) == dir.exists /\ "model.pt" \in dir.files

\* if not Path("./reference_model").exists(): mkdir()
\* elif not Path("./reference_model/model.pt").exists(): urlretrieve(...)
ModelCell ==
    /\ sa_pc = "model"
    /\ IF ~reference_model.exists
         THEN /\ reference_model' = Directory({})
              /\ urlretrieved' = urlretrieved
         ELSE IF ~HasModelPt(reference_model)
                THEN /\ reference_model' = Directory(reference_model.files \cup {"model.pt"})
                     /\ urlretrieved' = urlretrieved + 1
                ELSE UNCHANGED <<reference_model, urlretrieved>>
    /\ sa_pc' = "load"
    /\ UNCHANGED <<augVars, reference_model_orig, scarches_model>>
    /\ UNCHANGED offSa

\* scarches_model = sca.models.SCVI.load_query_data(adata, reference_model = "./reference_model");
\* the model is read from model.pt in that directory
LoadQueryDataCell ==
    /\ sa_pc = "load"
    /\ IF HasModelPt(reference_model)
         THEN scarches_model' = "loaded" /\ sa_pc' = "done"
         ELSE scarches_model' = scarches_model /\ sa_pc' = "load_failed"
    /\ UNCHANGED <<augVars, reference_model, reference_model_orig, urlretrieved>>
    /\ UNCHANGED offSa

\* the states the directory can be in when the notebook begins
ReferenceModelDirs == {NoDirectory} \cup {Directory(fs) : fs \in SUBSET ModelFiles}

SaIdle ==
    /\ sa_pc = "idle"
    /\ reference_model_features = <<>>
    /\ adata_to_map = EmptyAnnData
    /\ missing_genes = <<>>
    /\ missing_gene_adata = EmptyAnnData
    /\ adata_to_map_augmented = EmptyAnnData
    /\ order_checked = "none"
    /\ reference_model = NoDirectory
    /\ reference_model_orig = NoDirectory
    /\ urlretrieved = 0
    /\ scarches_model = "none"

SaStart ==
    /\ sa_pc = "missing"
    /\ reference_model_features \in GeneLists
    /\ \E var \in GeneLists, n \in 1..MaxCells : adata_to_map = Query(var, n)
    /\ missing_genes = <<>>
    /\ missing_gene_adata = EmptyAnnData
    /\ adata_to_map_augmented = EmptyAnnData
    /\ order_checked = "none"
    /\ reference_model \in ReferenceModelDirs
    /\ reference_model_orig = reference_model
    /\ urlretrieved = 0
    /\ scarches_model = "none"

SaNext ==
    \/ MissingCell
    \/ ZerosCell
    \/ ConcatCell
    \/ SubsetCell
    \/ CheckCell
    \/ ModelCell
    \/ LoadQueryDataCell

----------------------------------------------------------------------------
(* The sample-merge notebook: the annotation files of the samples are      *)
(* found by a glob, identifier, treatment and week are cut out of each     *)
(* path, and the objects are concatenated under the identifiers.  A        *)
(* directory name is a sequence of tokens; a path is the fixed prefix, the *)
(* directory name and '/annotation.h5ad', and only the directory name can  *)
(* hold 'CE'.                                                              *)

MaxPaths == 3

\* names of directories under results/preprocessing
DirNames ==
    { <<"CE_SC_", "5FU_", "C", "_", "1">>,
      <<"CE_SC_", "5FU_", "OnOff", "_", "5">>,
      <<"CE_SC_", "C", "_", "1">>,
      <<"pilot", "_", "1">>,
      <<"CE_SC_", "Conti">> }

\* glob.glob(".../results/preprocessing/*/annotation.h5ad"): the directories
\* that hold the file, each once, in no particular order
Globs == {g \in SeqsUpTo(DirNames, MaxPaths) : NoRepeat(g)}

FirstAt(s, tok) ==
    IF \E k \in 1..Len(s) : s[k] = tok
        THEN CHOOSE k \in 1..Len(s) : s[k] = tok /\ \A i \in 1..(k - 1) : s[i] # tok
        ELSE 0

\* re.search("CE[a-zA-Z0-9_]*", path): from the first 'CE' to the end of the
\* directory name; None when the path holds no 'CE'
ReSearch(path) ==
    LET k == FirstAt(path, "CE_SC_") IN
        IF k = 0 THEN [matched |-> FALSE, group |-> <<>>]
                 ELSE [matched |-> TRUE, group |-> SubSeq(path, k, Len(path))]

\* re.sub(tok, "", name)
ReSubEmpty(tok, name) == SelectSeq(name, LAMBDA t : t # tok)

\* name.split("_")
RECURSIVE Split(_)
Split(name) ==
    LET k == FirstAt(name, "_") IN
        IF k = 0 THEN <<name>>
                 ELSE <<SubSeq(name, 1, k - 1)>> \o Split(SubSeq(name, k + 1, Len(name)))

\* the paths the comprehension keeps: 'if (match := re.search(...))'
Matching(paths) == SelectSeq(paths, LAMBDA p : ReSearch(p).matched)

StripPrefixes(name) == ReSubEmpty("5FU_", ReSubEmpty("CE_SC_", name))

SampleIds(paths) ==
    [k \in 1..Len(Matching(paths)) |-> StripPrefixes(ReSearch(Matching(paths)[k]).group)]

\* "Control" if treatment == "C" else treatment
Recorded(treatment) == IF treatment = <<"C">> THEN <<"Control">> ELSE treatment

\* the cell that derives sample_ids, sample_treatments and sample_weeks;
\* name.split("_")[1] raises IndexError for a name without '_'
IdsCell ==
    /\ mg_pc = "ids"
    /\ sample_ids' = SampleIds(sample_paths)
    /\ IF \E k \in 1..Len(sample_ids') : Len(Split(sample_ids'[k])) < 2
         THEN /\ sample_treatments' = [k \in 1..Len(sample_ids') |-> Split(sample_ids'[k])[1]]
              /\ sample_weeks' = sample_weeks
              /\ mg_pc' = "failed"
         ELSE /\ sample_treatments' =
                    [k \in 1..Len(sample_ids') |-> Recorded(Split(sample_ids'[k])[1])]
              /\ sample_weeks' = [k \in 1..Len(sample_ids') |-> Split(sample_ids'[k])[2]]
              /\ mg_pc' = "samples"
    /\ UNCHANGED <<sample_paths, samples_dict, adata_obs>>
    /\ UNCHANGED offMerge

Min2(a, b) == IF a <= b THEN a ELSE b
\* zip(sample_paths, sample_treatments, sample_weeks): as long as the shortest
Zip3(a, b, c) ==
    [k \in 1..Min2(Len(a), Min2(Len(b), Len(c))) |->
        [path |-> a[k], treatment |-> b[k], week |-> c[k]]]
\* dict(zip(keys, values)): a key that comes again keeps its last value
Dict(keys, values) ==
    LET n == Min2(Len(keys), Len(values)) IN
        [id \in {keys[k] : k \in 1..n} |->
            values[CHOOSE k \in 1..n : keys[k] = id /\ \A i \in (k + 1)..n : keys[i] # id]]

\* samples = dict(zip(...)); each file is read and annotated with the
\* treatment and week of its entry; ad.concat(adatas, label = "sample")
SamplesCell ==
    /\ mg_pc = "samples"
    /\ samples_dict' = Dict(sample_ids, Zip3(sample_paths, sample_treatments, sample_weeks))
    /\ adata_obs' = {[sample |-> id, source |-> samples_dict'[id].path,
                      treatment |-> samples_dict'[id].treatment,
                      week |-> samples_dict'[id].week] : id \in DOMAIN samples_dict'}
    /\ mg_pc' = "done"
    /\ UNCHANGED <<sample_paths, sample_ids, sample_treatments, sample_weeks>>
    /\ UNCHANGED offMerge

MergeIdle ==
    /\ mg_pc = "idle"
    /\ sample_paths = <<>>
    /\ sample_ids = <<>>
    /\ sample_treatments = <<>>
    /\ sample_weeks = <<>>
    /\ samples_dict = <<>>
    /\ adata_obs = {}

MergeStart ==
    /\ mg_pc = "ids"
    /\ sample_paths \in Globs
    /\ sample_ids = <<>>
    /\ sample_treatments = <<>>
    /\ sample_weeks = <<>>
    /\ samples_dict = <<>>
    /\ adata_obs = {}

MergeNext ==
    \/ IdsCell
    \/ SamplesCell

vars == <<snakefileVars, schedVars, tsvVars, nbVars, drVars, saVars, mergeVars>>

\* the Snakefile, run on a configuration
Init == SnakefileInit /\ SchedIdle /\ TsvIdle /\ NbIdle /\ DrIdle /\ SaIdle /\ MergeIdle
Next == SnakefileNext
Spec == Init /\ [][Next]_vars

\* the execution of the rule graph
SchedInit == SnakefileDone /\ SchedIdle /\ TsvIdle /\ NbIdle /\ DrIdle /\ SaIdle /\ MergeIdle
SchedSpec == SchedInit /\ [][SchedNext]_vars

\* a task that can start is started, a running task ends
SchedFairness ==
    \A t \in Tasks : WF_vars(Start(t)) /\ WF_vars(Finish(t) \/ Fail(t))
FairSchedSpec == SchedInit /\ [][SchedNext]_vars /\ SchedFairness

\* runs of the parameterized notebook against the distance files
TsvInit == SnakefileDone /\ SchedIdle /\ TsvStart /\ NbIdle /\ DrIdle /\ SaIdle /\ MergeIdle
TsvSpec == TsvInit /\ [][TsvNext]_vars

\* runs of the three notebooks against the .h5ad files
NbInit == SnakefileDone /\ SchedIdle /\ TsvIdle /\ NbStart /\ DrIdle /\ SaIdle /\ MergeIdle
NbSpec == NbInit /\ [][NbNext]_vars

\* one run of the parameterized notebook, from the load to the PCA call
DrInit == SnakefileDone /\ SchedIdle /\ TsvIdle /\ NbIdle /\ DrStart /\ SaIdle /\ MergeIdle
DrSpec == DrInit /\ [][DrNext]_vars

\* the feature augmentation of the reference-mapping notebook
SaInit == SnakefileDone /\ SchedIdle /\ TsvIdle /\ NbIdle /\ DrIdle /\ SaStart /\ MergeIdle
SaSpec == SaInit /\ [][SaNext]_vars

\* the sample-merge notebook on what the glob found
MergeInit ==
    SnakefileDone /\ SchedIdle /\ TsvIdle /\ NbIdle /\ DrIdle /\ SaIdle /\ MergeStart
MergeSpec == MergeInit /\ [][MergeNext]_vars

----------------------------------------------------------------------------
(* Sample resolution: which branch runs, and how an unconfigured run ends. *)

\* directory-scan mode is switched on, under the key the shipped document
\* defines (data.samples_in_directory) or the key the Snakefile tests
DirectoryScanFlag(cfg) ==
    cfg.data_samples_in_directory \/ cfg.samples_in_directory = "true"

Resolved == pc # "L12"

\* C1: whenever a sheet path is set or the directory-scan flag is true,
\* exactly one of the two resolution branches has run once resolution is
\* over, and with a sheet path set it is the sheet branch.
C1_ExactlyOneBranch ==
    (Resolved /\ (SheetConfigured(config) \/ DirectoryScanFlag(config)))
        => /\ Cardinality(executed) = 1
           /\ (SheetConfigured(config) => executed = {"sheet"})

\* the part of C1 the Snakefile does keep: the sheet wins over the scan, and
\* the two branches never both run
SheetBranchWins ==
    /\ Cardinality(executed) <= 1
    /\ (Resolved /\ SheetConfigured(config)) => executed = {"sheet"}

GraphBuilt == pc \in {"L22", "L31", "L40", "done"}

\* C2: with no sheet path and the directory-scan flag false, graph
\* construction ends as a failure that reports 'no samples detected', and
\* never goes on to the statements after sample resolution or to rule all.
C2_NoSamplesFailure ==
    (~SheetConfigured(config) /\ ~DirectoryScanFlag(config))
        => /\ ~GraphBuilt
           /\ all_input = <<>>
           /\ (pc = "failed" => \E i \in 1..Len(stdout) : stdout[i] = "no samples detected")

\* the part of C2 the Snakefile does keep: such a run never builds the graph,
\* and it ends in an exception
UnconfiguredNeverBuilds ==
    (~SheetConfigured(config) /\ ~DirectoryScanFlag(config))
        => /\ ~GraphBuilt
           /\ all_input = <<>>
           /\ (pc \notin {"L12", "L18"} => pc = "failed" /\ error \in {"KeyError", "NameError"})

----------------------------------------------------------------------------
(* The parameter grid of rule all.                                         *)

\* C3: the targets of rule all are pairwise different paths: two grid
\* points never share a '.done' path and no '.done' path is the other
\* declared target, whatever domains the configuration declares.
C3_DistinctTargets ==
    pc = "done" =>
        \A i, j \in 1..Len(all_input) : i # j => all_input[i] # all_input[j]

\* size of a declared domain, a scalar counting as one value
DomainSize(entry) == IF entry.scalar THEN 1 ELSE Len(entry.vals)

GridSize(dr) ==
    DomainSize(dr.layer_to_use) * DomainSize(dr.scale_data_before_pca)
    * DomainSize(dr.genes_for_pca) * DomainSize(dr.cc_method)
    * DomainSize(dr.pca_n_components) * DomainSize(dr.umap_n_neighbors)

\* cc_method ["None","regress_out"], pca_n_components [50,100], every other
\* dimension one value
FourPointScenario(dr) ==
    /\ dr.cc_method = List(<<StrV(<<"None">>), StrV(<<"regress", "_", "out">>)>>)
    /\ dr.pca_n_components = List(<<IntV(50), IntV(100)>>)
    /\ DomainSize(dr.layer_to_use) = 1
    /\ DomainSize(dr.scale_data_before_pca) = 1
    /\ DomainSize(dr.genes_for_pca) = 1
    /\ DomainSize(dr.umap_n_neighbors) = 1

GridTargets == {all_input[k] : k \in 2..Len(all_input)}

\* C4: rule all requests as many grid instances as the product of the
\* sizes of the six declared domains, a scalar counting as size one; in the
\* 2 x 2 scenario these are exactly 4 different instances.
C4_GridCount ==
    pc = "done" =>
        /\ Len(all_input) - 1 = GridSize(config.dim_reduc)
        /\ (FourPointScenario(config.dim_reduc) => Cardinality(GridTargets) = 4)

C4_Witness ==
    /\ pc = "done"
    /\ FourPointScenario(config.dim_reduc)
    /\ Len(all_input) = 5

----------------------------------------------------------------------------
(* Execution of the rule graph.                                            *)

Running(t) == status[t] = "running"
Completed(t) == status[t] \in {"done", "satisfied"}

UpToDateAtInvoke == \A t \in Tasks : UpToDate(t, at_invoke)

\* C8: an invocation that finds every declared output present and newer
\* than its task's inputs starts no task and writes no file.
C8_Idempotent ==
    (phase \in {"running", "ended"} /\ UpToDateAtInvoke)
        => /\ \A t \in Tasks : starts[t] = 0 /\ status[t] = "satisfied"
           /\ \A f \in Files \ {SamplePath} : mtime[f] = at_invoke[f]
           /\ (phase = "running" => mtime = at_invoke)

C8_Witness ==
    /\ invocations = 2
    /\ phase = "ended"
    /\ UpToDateAtInvoke
    /\ AllComplete

\* C9: a failed task has produced nothing its dependents could use, no task
\* that depends on it directly or transitively has been started, and no
\* task is started twice in one invocation.
C9_FailureStops ==
    /\ \A t \in Tasks : starts[t] <= 1
    /\ \A t \in Tasks : status[t] = "failed" =>
          /\ starts[t] = 1
          /\ \A o \in Outputs(t) : mtime[o] = at_invoke[o]
          /\ \A d \in Descendants(t) :
                status[d] = "pending" /\ starts[d] = 0 /\ ~Eligible(d, status, mtime)
          /\ ~AllComplete

C9_Witness ==
    /\ phase = "ended"
    /\ status[SubsetTask] = "failed"
    /\ \A k \in GridIds : status[GridTask(k)] = "pending"

Ended(t) == status[t] \in {"done", "satisfied", "failed"}

\* C10: after a task has failed, every task that does not depend on it is
\* still run to its end; when the invocation is over the only tasks left
\* incomplete are failed ones and their dependents, and rule all is
\* incomplete.
C10_FailureIsolation ==
    /\ \A t \in Tasks : \A u \in Tasks \ ({t} \cup Descendants(t)) :
          (status[t] = "failed") ~> Ended(u)
    /\ [](phase = "ended" =>
            \A u \in Tasks : ~Completed(u) =>
                \/ status[u] = "failed"
                \/ \E f \in Ancestors(u) : status[f] = "failed")
    /\ []((\E t \in Tasks : status[t] = "failed") => ~AllComplete)

C10_Witness ==
    /\ status[GridTask(1)] = "failed"
    /\ status[GridTask(2)] = "done"

----------------------------------------------------------------------------
(* File effects of the notebooks.                                          *)

InputPath(j) == Path(input_file[j], "")
OwnTmpPaths(j) == {TmpPath(input_file[j], rs) : rs \in RandomStrings}
SoleWriter(j) == \A o \in Jobs \ {j} : h5_written[o] = {}

\* C6: a notebook writes no path it read, and the artifact at its input
\* path is after the run what it was before.
C6_InputUntouched ==
    \A j \in Jobs :
        /\ h5_written[j] \cap h5_read[j] = {}
        /\ (JobAt(j, "done") /\ SoleWriter(j)) => h5[InputPath(j)] = h5_orig[InputPath(j)]

\* C6 as amended: each of the three notebooks saves its result over the
\* artifact at its own input path: dimensionality reduction and clustering
\* write input_file itself, normalization writes a temporary file next to
\* it and renames that onto input_file; no other path is written.
C6_SavesInPlace ==
    \A j \in Jobs :
        /\ h5_written[j] \subseteq
              {InputPath(j)} \cup (IF notebook[j] = "normalization" THEN OwnTmpPaths(j) ELSE {})
        /\ JobAt(j, "done") =>
              /\ InputPath(j) \in h5_written[j] \cap h5_read[j]
              /\ (SoleWriter(j) => h5[InputPath(j)] = adata[j])

C6_Witness ==
    \E j \in Jobs :
        /\ JobAt(j, "done")
        /\ notebook[j] = "dimensionality_reduction"
        /\ h5[InputPath(j)] # h5_orig[InputPath(j)]
        /\ h5[InputPath(j)] = adata[j]

Overlapped(r1, r2) == {r1, r2} \in overlap
RunDone(r) == rpc[r].at = "done"

\* the rows of table tb of run r are in the file the run wrote them to
RowsPresent(r, tb) ==
    \A m \in {"UMAP", "PCA"} :
        \E i \in 1..Len(tsv[Target(r, tb)].lines) :
            LET row == tsv[Target(r, tb)].lines[i] IN
                row.point = r /\ row.table = tb /\ row.method = m

\* runs that overlapped and ended on the day they began find their rows in
\* the files
OverlappingRunsKeepRows ==
    \A r1, r2 \in Runs :
        (r1 # r2 /\ Overlapped(r1, r2) /\ RunDone(r1) /\ RunDone(r2) /\ now = 0)
            => \A tb \in {1, 2} : RowsPresent(r1, tb) /\ RowsPresent(r2, tb)

\* C7: two runs of the parameterized notebook for different grid points
\* that overlap in time write disjoint sets of files, and none loses rows to
\* the other.
C7_DisjointWrites ==
    /\ \A r1, r2 \in Runs :
          (r1 # r2 /\ Overlapped(r1, r2)) => written[r1] \cap written[r2] = {}
    /\ OverlappingRunsKeepRows

----------------------------------------------------------------------------
(* Sample resolution: the key of the directory scan, and the identifiers.  *)

\* the configuration switches the directory scan on the way the shipped
\* document spells it: no sheet path, data.samples_in_directory true
NestedScanConfigured(cfg) ==
    /\ ~SheetConfigured(cfg)
    /\ cfg.data_samples_in_directory
    /\ cfg.samples_in_directory = "absent"

\* C13: with the sheet path empty and data.samples_in_directory true,
\* sample resolution runs the directory-scan branch and binds the sample
\* collection; it does not fail.
C13_NestedKeyScans ==
    (Resolved /\ NestedScanConfigured(config))
        => /\ executed = {"scan"}
           /\ samples = Bound(ReadSampleIndex(TRUE, directory))
           /\ error = "none"

\* what the Snakefile does instead: such a run ends in KeyError
NestedKeyRaises ==
    (Resolved /\ NestedScanConfigured(config))
        => pc = "failed" /\ error = "KeyError" /\ executed = {}

Stored == pc \in {"L22", "L31", "L40", "done"}

\* C14: once wc is stored it holds no identifier twice, and the per-sample
\* targets expanded from it are pairwise different paths.
C14_UniqueIdentifiers ==
    Stored => NoRepeat(wc) /\ NoRepeat(SampleTargets(wc))

\* a sheet that names no sample twice gives no identifier twice
DistinctNamesDistinctIds ==
    (Stored /\ NoRepeat(sheet_rows)) => NoRepeat(wc)

\* the resolver keeps the uniqueness of its source: a sheet of different
\* letter names, and a directory, give different identifiers
UniqueSourceUniqueIds ==
    (Stored /\ NoRepeat(sheet_rows)
        /\ \A k \in 1..Len(sheet_rows) : sheet_rows[k] \in {<<"A">>, <<"B">>})
        => NoRepeat(wc) /\ NoRepeat(SampleTargets(wc))

\* C15: a sheet with the names s1..sn gives the identifiers s1..sn: as many
\* as there are rows, in row order, each spelled as its row spells it.
C15_SheetOrder ==
    (Stored /\ executed = {"sheet"})
        => /\ Len(wc) = Len(sheet_rows)
           /\ \A k \in 1..Len(wc) : Str(wc[k]) = sheet_rows[k]

\* what the Snakefile does keep: one identifier per row, and a name that is
\* neither a number nor a missing-value marker stays where and what it is
\* in a sheet without such names
RowsKept ==
    (Stored /\ executed = {"sheet"})
        => /\ Len(wc) = Len(sheet_rows)
           /\ ((\A k \in 1..Len(wc) : sheet_rows[k] \in {<<"A">>, <<"B">>})
                  => \A k \in 1..Len(wc) : wc[k] = StrV(sheet_rows[k]))

----------------------------------------------------------------------------
(* Location of conda environments.                                         *)

EnvsResolved == pc \in {"L31", "L40", "done"}

\* C16: after environment resolution (env_prefix, env_suffix) is
\* (envs_path, '') when use_existing_envs is true and ('../envs/', '.yaml')
\* when it is false, whatever else the configuration holds, and the step
\* changes nothing but these two names.
C16_EnvSelection ==
    /\ [](EnvsResolved =>
            IF config.use_existing_envs
                THEN env_prefix = config.envs_path /\ env_suffix = ""
                ELSE env_prefix = "../envs/" /\ env_suffix = ".yaml")
    /\ [][ResolveEnvs =>
            UNCHANGED <<config, sheet_rows, directory, samples, wc, executed,
                        stdout, error, filename, all_input>>]_vars

C16_Witness ==
    /\ pc = "done"
    /\ ~config.use_existing_envs
    /\ config.envs_path = "/opt/conda/envs/"
    /\ env_prefix = "../envs/"
    /\ env_suffix = ".yaml"

----------------------------------------------------------------------------
(* Completion of rule all, and what the skip policy does not see.          *)

Checkpoint(k) == GraphInput[k + 1]

\* C11: rule all is complete only while the '.done' checkpoint of every
\* grid point exists.
C11_CompleteHasCheckpoints ==
    AllComplete => \A k \in GridIds : mtime[Checkpoint(k)] > 0

C11_Witness ==
    /\ AllComplete
    /\ invocations = 1
    /\ \A k \in GridIds : status[GridTask(k)] = "done" /\ mtime[Checkpoint(k)] > 0

\* the file was derived from the source data as they are now
Current(f) == content[f] = content[SamplePath]

\* the timestamps the invocation found give no reason to run t
TimestampsInOrder(t) ==
    UpToDate(t, at_invoke) /\ \A a \in Ancestors(t) : UpToDate(a, at_invoke)

\* C17: a task whose outputs exist and carry newer timestamps than its
\* inputs is treated as satisfied and is not run, whether or not the
\* content of the source data has changed since the outputs were written.
C17_StaleSkipped ==
    \A t \in Tasks :
        (phase \in {"running", "ended"} /\ TimestampsInOrder(t))
            => /\ status[t] = "satisfied"
               /\ starts[t] = 0
               /\ \A o \in Outputs(t) : mtime[o] = at_invoke[o]

\* rule all is complete while a checkpoint was derived from source data
\* that have been replaced
C17_Witness ==
    /\ phase = "running"
    /\ invocations = 2
    /\ AllComplete
    /\ \A t \in Tasks : status[t] = "satisfied"
    /\ \E k \in GridIds : ~Current(Checkpoint(k))

----------------------------------------------------------------------------
(* Feature augmentation in the reference-mapping notebook.                 *)

Checked == sa_pc \in {"model", "load", "done", "load_failed"}
Augmented == sa_pc = "check" \/ Checked

\* the column of gene g in the augmented dataset
AugColumn(g) == adata_to_map_augmented.X[Pos(adata_to_map_augmented.var, g)]

\* C12: the augmentation does not fail; the augmented dataset has the
\* features of the reference, as many and in its order; a feature the query
\* lacks is zero in every cell, a feature the query has keeps its counts,
\* query features outside the reference are gone, and the cells are those
\* of the query.
C12_FeatureAugmentation ==
    /\ sa_pc # "failed"
    /\ ((sa_pc \in {"zeros", "concat", "subset"} \/ Augmented) =>
            /\ \A g \in GeneIds :
                  Has(missing_genes, g) <=>
                      Has(reference_model_features, g) /\ ~Has(adata_to_map.var, g)
            /\ NoRepeat(missing_genes))
    /\ (Augmented =>
            /\ Len(adata_to_map_augmented.var) = Len(reference_model_features)
            /\ adata_to_map_augmented.var = reference_model_features
            /\ Len(adata_to_map_augmented.X) = Len(reference_model_features)
            /\ adata_to_map_augmented.obs = adata_to_map.obs
            /\ \A g \in GeneIds : Has(reference_model_features, g) =>
                  /\ DOMAIN AugColumn(g) = adata_to_map.obs
                  /\ \A c \in adata_to_map.obs :
                        AugColumn(g)[c] = IF Has(adata_to_map.var, g) THEN Count(c, g) ELSE 0)
    /\ (Checked => order_checked = "True")

\* a reference of two genes, the query lacks the first of them and has a
\* gene of its own
C12_Witness ==
    /\ Checked
    /\ Len(reference_model_features) = 2
    /\ Len(missing_genes) = 1
    /\ missing_genes[1] = reference_model_features[1]
    /\ \E k \in 1..Len(adata_to_map.var) : ~Has(reference_model_features, adata_to_map.var[k])
    /\ Cardinality(adata_to_map.obs) = 2

----------------------------------------------------------------------------
(* What the parameterized notebook runs PCA on.                            *)

PcaDone == dr_pc = "done"

\* C18: each genes_for_pca mode selects its own gene set: the global mode
\* computes highly variable genes over all cells, the per-sample mode with
\* the sample as batch key, 'all' runs PCA on all genes; the per-sample
\* computation runs exactly in the per-sample mode.
C18_GeneSelection ==
    PcaDone =>
        /\ (params.genes_for_pca = "globally_highly_variable"
               => "all_cells" \in adata_dr.hvg_calls)
        /\ (params.genes_for_pca = "highly_variable_per_sample"
               => "per_sample" \in adata_dr.hvg_calls)
        /\ (params.genes_for_pca = "all" => adata_dr.pca.genes = "all")
        /\ ("per_sample" \in adata_dr.hvg_calls
               <=> params.genes_for_pca = "highly_variable_per_sample")
        /\ (params.cc_method # "cc_genes_out" =>
               adata_dr.pca.genes =
                 CASE params.genes_for_pca = "globally_highly_variable" -> "all_cells"
                   [] params.genes_for_pca = "highly_variable_per_sample" -> "per_sample"
                   [] OTHER -> "all")

\* what the notebook does: in every mode the highly variable genes are
\* computed over all cells and never per sample; 'all' runs PCA on all genes
GlobalInEveryMode ==
    PcaDone =>
        /\ adata_dr.hvg_calls = {"all_cells"}
        /\ (params.genes_for_pca = "all" => adata_dr.pca.genes = "all")
        /\ (params.genes_for_pca # "all" /\ params.cc_method # "cc_genes_out"
               => adata_dr.pca.genes = "all_cells")

\* C19: PCA runs on the scaled matrix when scale_data_before_pca is true
\* and on the unscaled layer_to_use layer when it is false.
C19_ScalingDecides ==
    PcaDone =>
        /\ adata_dr.pca.X.layer = params.layer_to_use
        /\ adata_dr.pca.X.scaled = params.scale_data_before_pca

\* what the notebook does: the scaling cell scales or not as the parameter
\* says, and PCA runs on the unscaled layer either way
ScalingUndone ==
    /\ (dr_pc = "reset_X" => adata_dr.X.scaled = params.scale_data_before_pca)
    /\ (PcaDone => adata_dr.pca.X.layer = params.layer_to_use /\ ~adata_dr.pca.X.scaled)

\* the same grid point with cc_method 'None'
WithoutCc(p) == [p EXCEPT !.cc_method = "None"]

\* the matrix and the gene set PCA was run on
PcaRanOn == [X |-> adata_dr.pca.X, genes |-> adata_dr.pca.genes]
PcaWouldRunOn(p) == [X |-> PcaInput(p).X, genes |-> PcaInput(p).genes]

\* C20: in every genes_for_pca mode a cc_method other than 'None' gives PCA
\* another matrix or another gene set than the same grid point has with
\* 'None'; with 'None' the correction cell changes nothing.
C20_CcChangesInput ==
    /\ (PcaDone /\ params.cc_method # "None") => PcaRanOn # PcaWouldRunOn(WithoutCc(params))
    /\ (dr_pc \in {"pca", "done"} /\ params.cc_method = "None") =>
            /\ adata_dr.X = LayerCopy(params.layer_to_use)
            /\ adata_dr.highly_variable = "all_cells"

\* what the notebook does: the two regressions always change the matrix,
\* and removing the cell cycle genes changes the gene set unless PCA runs on
\* all genes
CcChangesUnlessAllGenes ==
    PcaDone =>
        /\ PcaRanOn = PcaWouldRunOn(params)
        /\ (params.cc_method \in {"regress_out", "cc_difference_regressed_out"}
               => adata_dr.pca.X # PcaInput(WithoutCc(params)).X)
        /\ (params.cc_method = "cc_genes_out" =>
               (adata_dr.pca.genes # PcaInput(WithoutCc(params)).genes
                   <=> params.genes_for_pca # "all"))

----------------------------------------------------------------------------
(* The two numeric parameters of the parameterized notebook.               *)

\* C21: PCA computes pca_n_components components, the neighborhood graph
\* UMAP is computed from has umap_n_neighbors neighbors, and neither
\* parameter sets anything else: the cell does not fail, and the graph is
\* built on the components PCA computed.
C21_OwnQuantity ==
    /\ dr_pc # "failed"
    /\ PcaDone =>
          /\ adata_dr.n_comps = params.pca_n_components
          /\ adata_dr.umap
          /\ adata_dr.neighbors.n_neighbors = params.umap_n_neighbors
          /\ adata_dr.neighbors.n_pcs = params.pca_n_components

\* what the notebook does: PCA computes pca_n_components components; the
\* graph always has the default number of neighbors and is built on the
\* first umap_n_neighbors components, and the cell fails when there are
\* fewer components than that
NeighborsOnFirstComponents ==
    /\ PcaDone =>
          /\ adata_dr.n_comps = params.pca_n_components
          /\ adata_dr.umap
          /\ adata_dr.neighbors.n_neighbors = DefaultNNeighbors
          /\ adata_dr.neighbors.n_pcs = params.umap_n_neighbors
    /\ dr_pc = "failed" <=>
          (adata_dr.pca.ran /\ params.umap_n_neighbors > params.pca_n_components)

----------------------------------------------------------------------------
(* The distance files of the parameterized notebook.                       *)

Failed(r) == rpc[r].at = "failed"
Sequential == overlap = {}
File(r, tb) == tsv[Target(r, tb)]

\* the branch a run stands in fits the file it found
BranchFitsFile(r, tb) ==
    /\ At(r, "create", tb) => ~File(r, tb).exists
    /\ At(r, "replace", tb) => File(r, tb).exists /\ Outdated(File(r, tb), now)
    /\ At(r, "append", tb) => File(r, tb).exists /\ ~Outdated(File(r, tb), df_date[r])

\* C22: a run creates the file with a header when it does not exist,
\* replaces it when its oldest date is a day or more old, and appends
\* otherwise: no run ends in an error instead of writing, and in runs that
\* follow one another the branch taken fits the file.
C22_WritePolicy ==
    /\ \A r \in Runs : ~Failed(r)
    /\ Sequential => \A r \in Runs, tb \in {1, 2} : BranchFitsFile(r, tb)

OwnFiles == \A r \in Runs : tsv_file[r] = Week1Tsv

\* what the notebook does keep: with a tsv_file the pattern of the second
\* cell matches, runs that follow one another take the branch that fits
\* the file and none fails
PolicyWithOwnFiles ==
    (OwnFiles /\ Sequential) =>
        /\ \A r \in Runs : ~Failed(r)
        /\ \A r \in Runs, tb \in {1, 2} : BranchFitsFile(r, tb)

\* with the default tsv_file the table of the second cell lands in the file
\* of the first, and the next run that reads the file fails
DefaultFileBreaksNextRun ==
    \A r \in Runs : Failed(r) =>
        /\ tsv_file[r] = DefaultTsv
        /\ Target(r, 1) = Target(r, 2)
        /\ {File(r, 1).lines[k].table : k \in 1..Len(File(r, 1).lines)} = {1, 2}

HeaderLines(file) == {k \in 1..Len(file.lines) : file.lines[k].kind = "header"}
RowsOf(file, r, tb) ==
    {k \in 1..Len(file.lines) :
        LET l == file.lines[k] IN l.kind = "row" /\ l.point = r /\ l.table = tb}

WellFormed(file) ==
    /\ HeaderLines(file) = {1}
    /\ \A k \in 2..Len(file.lines) : file.lines[k].table = file.lines[1].table
    /\ \A r \in Runs, tb \in {1, 2} :
          \/ RowsOf(file, r, tb) = {}
          \/ /\ Cardinality(RowsOf(file, r, tb)) = 2
             /\ {file.lines[k].method : k \in RowsOf(file, r, tb)} = {"UMAP", "PCA"}

\* C23: after runs that follow one another every distance file has one
\* header line, its first; every row has the columns of that header; and a
\* run's rows in a file are two, one 'UMAP' and one 'PCA', with the
\* parameters of the run.
C23_OneHeader ==
    Sequential => \A f \in TsvPaths : tsv[f].exists => WellFormed(tsv[f])

\* what the notebook does keep: the same with a tsv_file the pattern of the
\* second cell matches
OneHeaderWithOwnFiles ==
    (OwnFiles /\ Sequential) => \A f \in TsvPaths : tsv[f].exists => WellFormed(tsv[f])

\* C24: the two tables of a run go to two different files, whatever
\* tsv_file is, and no file holds rows of both tables.
C24_TwoFiles ==
    /\ \A r \in Runs : rpc[r].table = 2 => Target(r, 1) # Target(r, 2)
    /\ \A f \in TsvPaths : \A k \in 1..Len(tsv[f].lines) :
          tsv[f].lines[k].table = tsv[f].lines[1].table

\* what the notebook does: the files differ exactly when tsv_file holds
\* 'week1_samples'
TwoFilesIffPatternMatches ==
    \A r \in Runs : (Target(r, 1) # Target(r, 2)) <=> tsv_file[r] = Week1Tsv

----------------------------------------------------------------------------
(* The save cell of the normalization notebook.                            *)

Normalizing(j) == notebook[j] = "normalization"
OwnTmpPath(j) == TmpPath(input_file[j], random_string[j])
WroteTmp(j) == Normalizing(j) /\ OwnTmpPath(j) \in h5_written[j]
\* every run that works on the file is a run of the normalization notebook
NormalizationOnly(f) == \A j \in Jobs : input_file[j] = f => Normalizing(j)
\* two runs have handed the same path to adata.write_h5ad
SameTmp(j1, j2) == j1 # j2 /\ WroteTmp(j1) /\ WroteTmp(j2) /\ OwnTmpPath(j1) = OwnTmpPath(j2)

InputComplete == \A f \in InputFiles : NormalizationOnly(f) => h5[Path(f, "")].state = "complete"
NoTmpLeft == \A j \in Jobs : (Normalizing(j) /\ JobAt(j, "done")) => h5[OwnTmpPath(j)].state = "absent"

\* C25: while normalization runs save to an input_file, one or several at a
\* time, the path input_file holds a complete artifact at every point, no
\* two runs write the same temporary file, and a run that has saved leaves
\* no temporary file behind.
C25_AtomicSave ==
    /\ InputComplete
    /\ \A j1, j2 \in Jobs : ~SameTmp(j1, j2)
    /\ NoTmpLeft

\* what the save cell does: the same as long as np.random.bytes hands the
\* runs different strings; nothing else keeps the temporary paths apart
AtomicWithDistinctStrings ==
    (\A j1, j2 \in Jobs : ~SameTmp(j1, j2)) => (InputComplete /\ NoTmpLeft)

----------------------------------------------------------------------------
(* Loading the reference model in the reference-mapping notebook.          *)

ModelCellRan == sa_pc \in {"load", "done", "load_failed"}
Downloaded == urlretrieved > 0

\* C26: whatever ./reference_model was before the cell (missing, without
\* model.pt, with model.pt), after the cell ./reference_model/model.pt
\* exists, and it was downloaded only if it was not there.
C26_ModelPresent ==
    ModelCellRan =>
        /\ HasModelPt(reference_model)
        /\ Downloaded => ~HasModelPt(reference_model_orig)

\* what the cell does: it makes the directory when that is missing and
\* downloads only into a directory that was already there; after a start
\* without the directory model.pt is still missing and the load fails
DownloadsIntoExistingDirectory ==
    /\ ModelCellRan =>
          /\ reference_model.exists
          /\ HasModelPt(reference_model) <=> reference_model_orig.exists
          /\ Downloaded <=> (reference_model_orig.exists /\ ~HasModelPt(reference_model_orig))
          /\ urlretrieved <= 1
    /\ sa_pc = "done" => reference_model_orig.exists /\ scarches_model = "loaded"
    /\ sa_pc = "load_failed" => ~reference_model_orig.exists

----------------------------------------------------------------------------
(* The samples dictionary of the sample-merge notebook.                    *)

Merged == mg_pc = "done"
\* identifier, treatment and week as the notebook cuts them out of one path
IdOf(path) == StripPrefixes(ReSearch(path).group)
TreatmentOf(path) == Recorded(Split(IdOf(path))[1])
WeekOf(path) == Split(IdOf(path))[2]

\* the entry under id holds what its own path gives
OwnPath(id) ==
    LET e == samples_dict[id] IN
        /\ ReSearch(e.path).matched
        /\ IdOf(e.path) = id
        /\ Len(Split(id)) >= 2
        /\ e.treatment = TreatmentOf(e.path)
        /\ e.week = WeekOf(e.path)
        /\ (Split(id)[1] = <<"C">> => e.treatment = <<"Control">>)
        /\ (Split(id)[1] # <<"C">> => e.treatment = Split(id)[1])

\* C27: in the samples dictionary every path is stored with the identifier,
\* treatment and week cut out of that same path, there are as many entries
\* as paths were found, and treatment 'C' is stored as 'Control', any other
\* as it was parsed.
C27_PathsPaired ==
    Merged =>
        /\ \A id \in DOMAIN samples_dict : OwnPath(id)
        /\ Cardinality(DOMAIN samples_dict) = Len(sample_paths)

\* the directory name is CE..., then treatment, '_' and week
Conventional(path) == ReSearch(path).matched /\ Len(Split(IdOf(path))) >= 2
DistinctIds ==
    \A i, j \in 1..Len(sample_paths) :
        IdOf(sample_paths[i]) = IdOf(sample_paths[j]) => i = j

\* what the notebook does: the pairing holds when every path that was found
\* holds 'CE' and no two give the same identifier; a path without 'CE' is
\* dropped from sample_ids alone, and the identifiers after it are paired
\* with the paths before theirs
PairedWhenAllMatch ==
    (Merged /\ DistinctIds /\ \A k \in 1..Len(sample_paths) : Conventional(sample_paths[k]))
        => /\ \A id \in DOMAIN samples_dict : OwnPath(id)
           /\ Cardinality(DOMAIN samples_dict) = Len(sample_paths)

----------------------------------------------------------------------------
(* Names of the layers the notebooks hand to one another.                  *)

NormalizationLayers(v) ==
    {Layer("log1p_norm", v), Layer("scran_normalization", v),
     Layer("analytic_pearson_residuals", v)}
NormalizedWith(ad, v) == NormalizationLayers(v) \subseteq ad.layers
Consumer(j) == notebook[j] \in {"dimensionality_reduction", "clustering"}
HasLoaded(j) == adata[j].state = "complete"
\* a normalization run with count layer v has saved to the file of run j
NormalizationSaved(j, v) ==
    \E o \in Jobs \ {j} :
        /\ Normalizing(o) /\ count_layer_to_use[o] = v
        /\ InputPath(o) = InputPath(j) /\ InputPath(o) \in h5_written[o]

\* C28: a normalization run with count layer v leaves the layers
\* 'log1p_norm_of_v', 'scran_normalization_of_v' and
\* 'analytic_pearson_residuals_of_v' in the artifact; a dimensionality
\* reduction or clustering run that loads the artifact afterwards with the
\* same v finds the layer it reads; one that loads an artifact no
\* normalization run with its v has saved to does not find it and stops.
C28_LayerContract ==
    \A j \in Jobs :
        /\ (Normalizing(j) /\ JobAt(j, "done")) =>
              /\ NormalizedWith(adata[j], count_layer_to_use[j])
              /\ SoleWriter(j) => NormalizedWith(h5[InputPath(j)], count_layer_to_use[j])
        /\ (Consumer(j) /\ HasLoaded(j)) =>
              /\ NormalizedWith(adata[j], count_layer_to_use[j]) =>
                    /\ ~JobAt(j, "failed")
                    /\ ~JobAt(j, "set_X") => adata[j].X \in adata[j].layers
              /\ ~NormalizedWith(adata[j], count_layer_to_use[j]) =>
                    JobAt(j, "set_X") \/ JobAt(j, "failed")
              /\ ~NormalizationSaved(j, count_layer_to_use[j]) =>
                    ~NormalizedWith(adata[j], count_layer_to_use[j])

\* a clustering run has gone through on the artifact a normalization run
\* with the same count layer had saved
C28_Witness ==
    \E j, o \in Jobs :
        /\ notebook[j] = "clustering" /\ JobAt(j, "done")
        /\ Normalizing(o) /\ JobAt(o, "done")
        /\ input_file[j] = input_file[o]
        /\ count_layer_to_use[j] = count_layer_to_use[o]
        /\ NormalizedWith(h5[InputPath(j)], count_layer_to_use[j])

====
